---- MODULE Spec2Model ----
(***************************************************************************)
(* A model of the reconciliation engine of cognite-replicator:             *)
(* replication.py (matcher, resolver, retry, deletion sets), events.py     *)
(* (flat driver) and assets.py (hierarchy walker).                         *)
(*                                                                         *)
(* Encoding.  A resource (Asset, Event, TimeSeries, Sequence) is a record  *)
(* of the attributes the engine reads.  An integer attribute that is None  *)
(* in Python holds NoneVal; an Optional[List[int]] that is None holds      *)
(* NoneList.  A metadata dict is a function whose domain is the set of     *)
(* keys that are present, so metadata None and {} (which every read in     *)
(* the code treats alike, through truthiness) are both EmptyMeta.          *)
(* External ids and project names are small integers / strings.            *)
(***************************************************************************)
EXTENDS Integers, Sequences, FiniteSets, TLC

VARIABLES
    pc,               \* position of the operation under study
    src_objects,      \* make_objects_batch: the source objects of the batch
    dst_objects,      \* the destination listing the map and src_filter come from
    src_id_dst_map,   \* source id -> destination object
    src_filter,       \* prior destination batch (<<>> when not supplied)
    batch,            \* what make_objects_batch returned (or raised)
    ids_to_delete,    \* the list a deletion-set function returned
    resource,         \* the resource kind of the caller
    op,               \* builder under study: "create" or "update"
    src_object,       \* a builder's source object
    dst_object,       \* a builder's destination object (update only)
    src_dst_ids_assets, \* source asset id -> destination asset id
    built,            \* what the builder returned (or raised)
    retry_objects,    \* retry: the objects to write
    attempt,          \* retry: the loop variable i of line 294
    ret,              \* retry: the value it will return
    calls,            \* retry: the outcome of every call of function so far
    opts,             \* replicate: its keyword arguments
    src_store,        \* the objects of the source project
    dst_store,        \* the objects of the destination project
    jobs,             \* thread: the queue of chunks [first, last)
    store_calls,      \* every write call the destination store received
    raised,           \* the exception that left replicate ("" for none)
    worker_error,     \* the exception that ended the worker thread ("" for none)
    runs,             \* completed runs of replicate
    depth,            \* create_hierarchy: depth of the level being copied
    children,         \* create_hierarchy: the source assets of that level
    src_dst_ids,      \* create_hierarchy: source asset id -> destination asset id
    workers,          \* thread: where each of the num_threads worker threads is
    lst,              \* _get_chunk: the list to slice
    num_chunks,       \* _get_chunk: the number of chunks
    chunks,           \* the chunks taken so far, chunk_number = 0, 1, ...
    shared_external_ids, \* datapoints.replicate: the external ids of both projects
    arg_list,         \* datapoints.replicate: the external ids of each job
    progress,         \* batch_replicate: how many of its external ids each job has done
    handed,           \* every call of replicate_datapoints: [job_id, ts_external_id]
    src_datapoints,   \* replicate_datapoints: the timestamps of the source time series
    dst_datapoints,   \* replicate_datapoints: the timestamps of the destination time series
    start,            \* replicate_datapoints: start of the range still to fetch (inclusive)
    end,              \* replicate_datapoints: end of the range (exclusive)
    datapoints_count, \* replicate_datapoints: datapoints copied so far
    inserted,         \* every datapoints.insert the destination received
    latest_dst_dp,    \* replicate_datapoints: timestamp of the destination's latest datapoint
    latest_src_dp     \* replicate_datapoints: timestamp of the source's latest datapoint

batchVars == <<src_objects, dst_objects, src_id_dst_map, src_filter, batch>>
deleteVars == <<ids_to_delete>>
buildVars == <<resource, op, src_object, dst_object, src_dst_ids_assets, built>>
retryVars == <<retry_objects, attempt, ret, calls>>

replicateVars == <<opts, src_store, dst_store, jobs, store_calls, raised, worker_error, runs>>
hierarchyVars == <<depth, children, src_dst_ids>>

harnessVars == <<workers>>
chunkVars == <<lst, num_chunks, chunks>>
poolVars == <<shared_external_ids, arg_list, progress, handed>>
datapointVars ==
    <<src_datapoints, dst_datapoints, start, end, datapoints_count, inserted, latest_dst_dp, latest_src_dp>>
otherVars == <<harnessVars, chunkVars, poolVars, datapointVars>>
vars == <<pc, batchVars, deleteVars, buildVars, retryVars, replicateVars, hierarchyVars, otherVars>>

-----------------------------------------------------------------------------
(* Bounds and value domains *)

MaxLen == 2                       \* longest source batch
MaxDst == 2                       \* longest destination listing of SpecDelete
MaxAssets == 3                    \* most assets in a source hierarchy
MaxRuns == 2                      \* most runs of replicate over one pair of projects
MaxThreads == 2                   \* most worker threads (num_threads)
MaxList == 4                      \* longest list handed to _get_chunk
MaxTime == 4                      \* latest timestamp of a datapoint
MaxQueue == 9                     \* longest source list handed to thread
Times == {1, 2}                   \* epoch-millisecond timestamps (positive)
ExternalIds == {1, 2}             \* external ids that occur
AssetIds == {1, 2}                \* source asset ids that occur
NoneVal == -1                     \* Python None in an integer attribute
NoneList == <<NoneVal>>           \* Python None in an Optional[List[int]]
EmptyMeta == [k \in {} |-> 0]     \* metadata None / {}
ProjectSrc == "src"               \* client_src.config.project

ReservedKeys == {"_replicatedSource", "_replicatedTime", "_replicatedInternalId"}

\* Python truthiness of an Optional[int]
Truthy(x) == x # NoneVal /\ x # 0

\* obj.metadata and obj.metadata.get(key), for an integer-valued key
MetaTruthy(obj, key) == key \in DOMAIN obj.metadata /\ obj.metadata[key] # 0

\* obj.metadata and obj.metadata.get(key), for a string-valued key
MetaTruthyStr(obj, key) == key \in DOMAIN obj.metadata /\ obj.metadata[key] # ""

Raise(e) == [raised |-> e]
IsRaised(x) == "raised" \in DOMAIN x

SeqMax(S) == CHOOSE m \in S : \A n \in S : n <= m

\* replicated_runtime of the run under study: later than every earlier time
Now == SeqMax(Times) + 1

-----------------------------------------------------------------------------
(* replication.py: provenance codec and resolver *)

\* make_id_object_map keyed by the destination object's own id
make_id_object_map_by_own_id(objects) ==
    LET mapped == {i \in 1..Len(objects) : MetaTruthy(objects[i], "_replicatedInternalId")}
        keys == {objects[i].id : i \in mapped}
    IN  [k \in keys |-> objects[SeqMax({i \in mapped : objects[i].id = k})]]

make_id_object_map(objects) ==
    LET mapped == {i \in 1..Len(objects) : MetaTruthy(objects[i], "_replicatedInternalId")}
        keys == {objects[i].metadata["_replicatedInternalId"] : i \in mapped}
    IN  [k \in keys |->
            objects[SeqMax({i \in mapped : objects[i].metadata["_replicatedInternalId"] = k})]]

get_asset_ids(ids, assets_map) ==
    IF ids = NoneList THEN NoneList
    ELSE LET kept == SelectSeq(ids, LAMBDA a : a \in DOMAIN assets_map)
         IN  [i \in 1..Len(kept) |-> assets_map[kept[i]]]

new_metadata(obj, psrc, runtime) ==
    [k \in DOMAIN obj.metadata \cup ReservedKeys |->
        IF k = "_replicatedSource" THEN psrc
        ELSE IF k = "_replicatedTime" THEN runtime
        ELSE IF k = "_replicatedInternalId" THEN obj.id
        ELSE obj.metadata[k]]

-----------------------------------------------------------------------------
(* The create/update builders.  A builder returns the object it built, or
   Raise(e) when the Python expression raises e. *)

\* events.py 29-41
create_event(src_event, assets_map, psrc, runtime) ==
    [id |-> NoneVal,
     external_id |-> src_event.external_id,
     last_updated_time |-> NoneVal,
     asset_ids |-> get_asset_ids(src_event.asset_ids, assets_map),
     metadata |-> new_metadata(src_event, psrc, runtime)]

\* events.py 62-75
\* Mutant of update_event: the replication metadata is not refreshed.
update_event_keeps_metadata(src_event, dst_event, assets_map, psrc, runtime) ==
    [dst_event EXCEPT
        !.external_id = src_event.external_id,
        !.asset_ids = get_asset_ids(src_event.asset_ids, assets_map)]

update_event(src_event, dst_event, assets_map, psrc, runtime) ==
    [dst_event EXCEPT
        !.external_id = src_event.external_id,
        !.metadata = new_metadata(src_event, psrc, runtime),
        !.asset_ids = get_asset_ids(src_event.asset_ids, assets_map)]

\* files.py 33-40
create_file(src_file, assets_map, psrc, runtime) ==
    [id |-> NoneVal,
     external_id |-> src_file.external_id,
     last_updated_time |-> NoneVal,
     asset_ids |-> get_asset_ids(src_file.asset_ids, assets_map),
     metadata |-> new_metadata(src_file, psrc, runtime)]

\* files.py 61-67
update_file(src_file, dst_file, assets_map, psrc, runtime) ==
    [dst_file EXCEPT
        !.external_id = src_file.external_id,
        !.metadata = new_metadata(src_file, psrc, runtime),
        !.asset_ids = get_asset_ids(src_file.asset_ids, assets_map)]

\* get_asset_ids([asset_id], map)[0] if asset_id else None
\* (time_series.py 36 and 68, sequences.py 32 and 60-62): the result, or
\* "IndexError" when the list get_asset_ids returns is empty.
SingleAssetRaises(asset_id, assets_map) ==
    Truthy(asset_id) /\ Len(get_asset_ids(<<asset_id>>, assets_map)) = 0

SingleAssetId(asset_id, assets_map) ==
    IF Truthy(asset_id) THEN get_asset_ids(<<asset_id>>, assets_map)[1] ELSE NoneVal

\* time_series.py 30-41
create_time_series(src_ts, assets_map, psrc, runtime) ==
    IF SingleAssetRaises(src_ts.asset_id, assets_map) THEN Raise("IndexError")
    ELSE [id |-> NoneVal,
          external_id |-> src_ts.external_id,
          last_updated_time |-> NoneVal,
          asset_id |-> SingleAssetId(src_ts.asset_id, assets_map),
          metadata |-> new_metadata(src_ts, psrc, runtime)]

\* time_series.py 63-72
update_time_series(src_ts, dst_ts, assets_map, psrc, runtime) ==
    IF SingleAssetRaises(src_ts.asset_id, assets_map) THEN Raise("IndexError")
    ELSE [dst_ts EXCEPT
            !.external_id = src_ts.external_id,
            !.metadata = new_metadata(src_ts, psrc, runtime),
            !.asset_id = SingleAssetId(src_ts.asset_id, assets_map)]

\* sequences.py 29-36
create_sequence(src_seq, assets_map, psrc, runtime) ==
    IF SingleAssetRaises(src_seq.asset_id, assets_map) THEN Raise("IndexError")
    ELSE [id |-> NoneVal,
          external_id |-> src_seq.external_id,
          last_updated_time |-> NoneVal,
          asset_id |-> SingleAssetId(src_seq.asset_id, assets_map),
          metadata |-> new_metadata(src_seq, psrc, runtime)]

\* sequences.py 58-65
update_sequence(src_seq, dst_seq, assets_map, psrc, runtime) ==
    IF SingleAssetRaises(src_seq.asset_id, assets_map) THEN Raise("IndexError")
    ELSE [dst_seq EXCEPT
            !.external_id = src_seq.external_id,
            !.metadata = new_metadata(src_seq, psrc, runtime),
            !.asset_id = SingleAssetId(src_seq.asset_id, assets_map)]

\* Mutant of build_asset_create: the parent id of the source is copied.
build_asset_create_raw_parent(src_asset, ids_map, psrc, runtime, dep) ==
    [id |-> NoneVal,
     external_id |-> src_asset.external_id,
     last_updated_time |-> NoneVal,
     parent_id |-> IF dep > 0 THEN src_asset.parent_id ELSE NoneVal,
     metadata |-> new_metadata(src_asset, psrc, runtime)]

\* assets.py 30-37: src_id_dst_map[src_asset.parent_id] if depth > 0 else None
build_asset_create(src_asset, ids_map, psrc, runtime, dep) ==
    IF dep > 0 /\ src_asset.parent_id \notin DOMAIN ids_map THEN Raise("KeyError")
    ELSE [id |-> NoneVal,
          external_id |-> src_asset.external_id,
          last_updated_time |-> NoneVal,
          parent_id |-> IF dep > 0 THEN ids_map[src_asset.parent_id] ELSE NoneVal,
          metadata |-> new_metadata(src_asset, psrc, runtime)]

\* assets.py 61-67
build_asset_update(src_asset, dst_asset, ids_map, psrc, runtime, dep) ==
    IF dep > 0 /\ src_asset.parent_id \notin DOMAIN ids_map THEN Raise("KeyError")
    ELSE [dst_asset EXCEPT
            !.external_id = src_asset.external_id,
            !.metadata = new_metadata(src_asset, psrc, runtime),
            !.parent_id = IF dep > 0 THEN ids_map[src_asset.parent_id] ELSE NoneVal]

\* The create / update arguments of make_objects_batch, by the resource kind
\* of the caller (events.py 121-122, files.py 116-117, sequences.py 114-115,
\* time_series.py 117-118, assets.py 161-162).
Create(kind, src_obj, ids_map, psrc, runtime, dep) ==
    CASE kind = "event" -> create_event(src_obj, ids_map, psrc, runtime)
      [] kind = "file" -> create_file(src_obj, ids_map, psrc, runtime)
      [] kind = "time_series" -> create_time_series(src_obj, ids_map, psrc, runtime)
      [] kind = "sequence" -> create_sequence(src_obj, ids_map, psrc, runtime)
      [] kind = "asset" -> build_asset_create(src_obj, ids_map, psrc, runtime, dep)

Update(kind, src_obj, dst_obj, ids_map, psrc, runtime, dep) ==
    CASE kind = "event" -> update_event(src_obj, dst_obj, ids_map, psrc, runtime)
      [] kind = "file" -> update_file(src_obj, dst_obj, ids_map, psrc, runtime)
      [] kind = "time_series" -> update_time_series(src_obj, dst_obj, ids_map, psrc, runtime)
      [] kind = "sequence" -> update_sequence(src_obj, dst_obj, ids_map, psrc, runtime)
      [] kind = "asset" -> build_asset_update(src_obj, dst_obj, ids_map, psrc, runtime, dep)

-----------------------------------------------------------------------------
(* replication.py: the matcher *)

\* Mutant of NeedsUpdate: the tie is rewritten (>= instead of >).
NeedsUpdateOnTie(src_obj, dst_obj) ==
    \/ ~Truthy(src_obj.last_updated_time)
    \/ src_obj.last_updated_time >= dst_obj.metadata["_replicatedTime"]

\* line 253: not src_obj.last_updated_time or
\*           src_obj.last_updated_time > int(dst_obj.metadata["_replicatedTime"])
NeedsUpdate(src_obj, dst_obj) ==
    \/ ~Truthy(src_obj.last_updated_time)
    \/ src_obj.last_updated_time > dst_obj.metadata["_replicatedTime"]

\* Mutant of FilterExtIdSet: the set is built from ids, not external ids.
FilterIdSet(filter) ==
    IF Len(filter) > 0 THEN {filter[i].id : i \in 1..Len(filter)} ELSE {}

\* lines 245-248
FilterExtIdSet(filter) ==
    IF Len(filter) > 0 THEN {filter[i].external_id : i \in 1..Len(filter)} ELSE {}

\* lines 251-271: the list one source object goes to; "KeyError" when line 253
\* reads a _replicatedTime that is missing.
Classify(src_obj, id_dst_map, filter) ==
    IF src_obj.id \in DOMAIN id_dst_map
    THEN IF Truthy(src_obj.last_updated_time) /\ "_replicatedTime" \notin DOMAIN id_dst_map[src_obj.id].metadata
         THEN "KeyError"
         ELSE IF NeedsUpdate(src_obj, id_dst_map[src_obj.id]) THEN "update" ELSE "unchanged"
    ELSE IF Len(filter) > 0
         THEN IF src_obj.external_id \in FilterExtIdSet(filter) THEN "unchanged" ELSE "create"
         ELSE "create"

EmptyBatch ==
    [raised |-> "", create_objects |-> <<>>, update_objects |-> <<>>, unchanged_objects |-> <<>>]

\* The object appended for src_obj, or Raise(e)
BatchEntry(kind, where, src_obj, id_dst_map, ids_map, psrc, runtime, dep) ==
    CASE where = "update" -> Update(kind, src_obj, id_dst_map[src_obj.id], ids_map, psrc, runtime, dep)
      [] where = "create" -> Create(kind, src_obj, ids_map, psrc, runtime, dep)
      [] where = "unchanged" -> IF src_obj.id \in DOMAIN id_dst_map THEN id_dst_map[src_obj.id] ELSE src_obj
      [] where = "KeyError" -> Raise("KeyError")

\* Mutant of BatchStep: an updated object is also reported as unchanged.
BatchStepBoth(acc, kind, src_obj, id_dst_map, ids_map, psrc, runtime, dep, filter) ==
    LET where == Classify(src_obj, id_dst_map, filter)
        entry == BatchEntry(kind, where, src_obj, id_dst_map, ids_map, psrc, runtime, dep)
    IN  IF acc.raised # "" THEN acc
        ELSE IF IsRaised(entry) THEN [acc EXCEPT !.raised = entry.raised]
        ELSE IF where = "update"
             THEN [acc EXCEPT !.update_objects = Append(@, entry), !.unchanged_objects = Append(@, entry)]
        ELSE IF where = "unchanged" THEN [acc EXCEPT !.unchanged_objects = Append(@, entry)]
        ELSE [acc EXCEPT !.create_objects = Append(@, entry)]

\* One iteration of the loop at line 250, applied to the lists built so far.
BatchStep(acc, kind, src_obj, id_dst_map, ids_map, psrc, runtime, dep, filter) ==
    LET where == Classify(src_obj, id_dst_map, filter)
        entry == BatchEntry(kind, where, src_obj, id_dst_map, ids_map, psrc, runtime, dep)
    IN  IF acc.raised # "" THEN acc
        ELSE IF IsRaised(entry) THEN [acc EXCEPT !.raised = entry.raised]
        ELSE IF where = "update" THEN [acc EXCEPT !.update_objects = Append(@, entry)]
        ELSE IF where = "unchanged" THEN [acc EXCEPT !.unchanged_objects = Append(@, entry)]
        ELSE [acc EXCEPT !.create_objects = Append(@, entry)]

\* The loop of lines 250-271 run to its end or to the first exception: the
\* lists built so far (the update entries are the destination objects the
\* update builder has rewritten in place) and the exception, if any.
BatchRun(kind, objects, id_dst_map, ids_map, psrc, runtime, dep, filter) ==
    LET run[i \in 0..Len(objects)] ==
            IF i = 0 THEN EmptyBatch
            ELSE BatchStep(run[i - 1], kind, objects[i], id_dst_map, ids_map, psrc, runtime, dep, filter)
    IN  run[Len(objects)]

\* What the caller receives: the three lists, or only the exception.
make_objects_batch(kind, objects, id_dst_map, ids_map, psrc, runtime, dep, filter) ==
    LET result == BatchRun(kind, objects, id_dst_map, ids_map, psrc, runtime, dep, filter)
    IN  IF result.raised # "" THEN [EmptyBatch EXCEPT !.raised = result.raised] ELSE result

-----------------------------------------------------------------------------
(* SpecBatch: make_objects_batch as a function of its inputs, called the way
   copy_events calls it (events.py 117-126). *)

SrcEvent(i, ext, lut) ==
    [id |-> i, external_id |-> ext, last_updated_time |-> lut,
     asset_ids |-> NoneList, metadata |-> EmptyMeta]

\* A destination object replicated from source id rid at time rtime
\* (rtime = NoneVal: the _replicatedTime key is missing).
ReplicatedMeta(rid, rtime) ==
    [k \in (IF rtime = NoneVal THEN ReservedKeys \ {"_replicatedTime"} ELSE ReservedKeys) |->
        IF k = "_replicatedSource" THEN ProjectSrc
        ELSE IF k = "_replicatedTime" THEN rtime
        ELSE rid]

DstEvent(i, ext, md) ==
    [id |-> i, external_id |-> ext, last_updated_time |-> Now,
     asset_ids |-> NoneList, metadata |-> md]

\* Non-None external ids are unique within a project.
UniqueExt(ext, n) ==
    \A i, j \in 1..n : (i # j /\ ext[i] # NoneVal) => ext[i] # ext[j]

SetToSeq(S) ==
    LET F[T \in SUBSET S] ==
            IF T = {} THEN <<>>
            ELSE LET m == SeqMax(T) IN Append(F[T \ {m}], m)
    IN  F[S]

\* The destination listing: for each source id i, prov[i] = 0 (no replica),
\* NoneVal (a replica whose _replicatedTime is missing) or the time of its
\* replica; plus one unlinked object per external id in foreign.
DstListing(n, ext, prov, foreign) ==
    LET linked == SelectSeq([i \in 1..n |-> i], LAMBDA i : prov[i] # 0)
        fs == SetToSeq(foreign)
    IN  [j \in 1..Len(linked) |->
            DstEvent(10 + linked[j], ext[linked[j]], ReplicatedMeta(linked[j], prov[linked[j]]))]
        \o [j \in 1..Len(fs) |-> DstEvent(20 + fs[j], fs[j], EmptyMeta)]

\* The variables a specification does not use stay at these values.
IdleBatch ==
    /\ src_objects = <<>> /\ dst_objects = <<>> /\ src_id_dst_map = <<>>
    /\ src_filter = <<>> /\ batch = EmptyBatch

IdleDelete == ids_to_delete = <<>>

IdleBuild ==
    /\ resource = "event" /\ op = "create" /\ src_object = <<>> /\ dst_object = <<>>
    /\ src_dst_ids_assets = <<>> /\ built = <<>>

IdleRetry == retry_objects = <<>> /\ attempt = 0 /\ ret = <<>> /\ calls = <<>>

IdleReplicate ==
    /\ opts = <<>> /\ src_store = <<>> /\ dst_store = <<>> /\ jobs = <<>>
    /\ store_calls = <<>> /\ raised = "" /\ worker_error = "" /\ runs = 0

IdleHierarchy == depth = 0 /\ children = <<>> /\ src_dst_ids = <<>>

IdleHarness == workers = <<>>

IdleChunk == lst = <<>> /\ num_chunks = 0 /\ chunks = <<>>

IdlePool == shared_external_ids = <<>> /\ arg_list = <<>> /\ progress = <<>> /\ handed = <<>>

IdleDatapoint ==
    /\ src_datapoints = {} /\ dst_datapoints = {} /\ start = 0 /\ end = 0
    /\ datapoints_count = 0 /\ inserted = <<>> /\ latest_dst_dp = NoneVal /\ latest_src_dp = NoneVal

IdleOther == IdleHarness /\ IdleChunk /\ IdlePool /\ IdleDatapoint

InitBatch ==
    /\ IdleDelete /\ IdleBuild /\ IdleRetry /\ IdleReplicate /\ IdleHierarchy
    /\ \E n \in 0..MaxLen :
       \E ext \in [1..n -> ExternalIds \cup {NoneVal}] :
       \E lut \in [1..n -> Times \cup {NoneVal}] :
       \E prov \in [1..n -> Times \cup {0, NoneVal}] :
       \E foreign \in SUBSET (ExternalIds \cup {NoneVal}) :
       \E supplied \in BOOLEAN :
        /\ UniqueExt(ext, n)
        /\ \A i \in 1..n : prov[i] # 0 => ext[i] \notin foreign \ {NoneVal}
        /\ pc = "start"
        /\ src_objects = [i \in 1..n |-> SrcEvent(i, ext[i], lut[i])]
        /\ dst_objects = DstListing(n, ext, prov, foreign)
        /\ src_id_dst_map = make_id_object_map(dst_objects)
        /\ src_filter = IF supplied THEN dst_objects ELSE <<>>
        /\ batch = EmptyBatch
    /\ IdleOther

MakeObjectsBatch ==
    /\ pc = "start"
    /\ batch' = make_objects_batch("event", src_objects, src_id_dst_map, <<>>,
                                   ProjectSrc, Now, NoneVal, src_filter)
    /\ pc' = "done"
    /\ UNCHANGED <<src_objects, dst_objects, src_id_dst_map, src_filter>>
    /\ UNCHANGED <<deleteVars, buildVars, retryVars, replicateVars, hierarchyVars>>
    /\ UNCHANGED otherVars

NextBatch == MakeObjectsBatch

SpecBatch == InitBatch /\ [][NextBatch]_vars

-----------------------------------------------------------------------------
(* Properties of make_objects_batch (SpecBatch) *)

BatchReturned == pc = "done" /\ batch.raised = ""

\* The entry e of an output list stands for the source object s: a built or
\* destination object carries s.id as _replicatedInternalId, a source object
\* passed through is s itself.
Represents(e, s) ==
    IF "_replicatedInternalId" \in DOMAIN e.metadata
    THEN e.metadata["_replicatedInternalId"] = s.id
    ELSE e = s

CountIn(list, s) == Cardinality({j \in 1..Len(list) : Represents(list[j], s)})

\* update() was called for s: the entry is the destination object of s,
\* restamped with this run's time.
InUpdate(s) ==
    \E j \in 1..Len(batch.update_objects) :
        /\ batch.update_objects[j].id = src_id_dst_map[s.id].id
        /\ batch.update_objects[j].metadata["_replicatedTime"] = Now

\* s was left alone: the entry is the destination object of s, as it was.
InUnchangedAsDst(s) ==
    \E j \in 1..Len(batch.unchanged_objects) : batch.unchanged_objects[j] = src_id_dst_map[s.id]

HasReplicatedTime(s) ==
    /\ s.id \in DOMAIN src_id_dst_map
    /\ "_replicatedTime" \in DOMAIN src_id_dst_map[s.id].metadata

ReplicatedTimeOf(s) == src_id_dst_map[s.id].metadata["_replicatedTime"]

\* C2: a source object s mapped to a destination object with
\* _replicatedTime = T is in the update list iff its last_updated_time is
\* unset or strictly greater than T; when last_updated_time <= T (equality
\* included) it is in the unchanged list, as the untouched destination
\* object, and update() was not called for it.
C2_ChangeDetection ==
    BatchReturned =>
        \A i \in 1..Len(src_objects) :
            HasReplicatedTime(src_objects[i]) =>
                /\ InUpdate(src_objects[i]) <=>
                        (\/ src_objects[i].last_updated_time = NoneVal
                         \/ src_objects[i].last_updated_time > ReplicatedTimeOf(src_objects[i]))
                /\ (/\ src_objects[i].last_updated_time # NoneVal
                    /\ src_objects[i].last_updated_time <= ReplicatedTimeOf(src_objects[i]))
                        => InUnchangedAsDst(src_objects[i]) /\ ~InUpdate(src_objects[i])

\* C2 witness: a batch returned in which one object with
\* last_updated_time = T was left unchanged and another one was updated.
C2_Witness ==
    /\ BatchReturned
    /\ \E i \in 1..Len(src_objects) :
            /\ HasReplicatedTime(src_objects[i])
            /\ src_objects[i].last_updated_time = ReplicatedTimeOf(src_objects[i])
            /\ InUnchangedAsDst(src_objects[i])
    /\ \E i \in 1..Len(src_objects) :
            /\ HasReplicatedTime(src_objects[i])
            /\ src_objects[i].last_updated_time > ReplicatedTimeOf(src_objects[i])
            /\ InUpdate(src_objects[i])

\* C3: when make_objects_batch returns, the three lists partition the input:
\* their lengths add up to the number of source objects and every source
\* object is represented by exactly one entry over the three lists.
C3_Partition ==
    BatchReturned =>
        /\ Len(batch.create_objects) + Len(batch.update_objects) + Len(batch.unchanged_objects)
                = Len(src_objects)
        /\ \A i \in 1..Len(src_objects) :
                CountIn(batch.create_objects, src_objects[i])
                    + CountIn(batch.update_objects, src_objects[i])
                    + CountIn(batch.unchanged_objects, src_objects[i]) = 1

\* C3 witness: a returned batch of MaxLen objects that fills two of the lists,
\* one of them the update list.
C3_Witness ==
    /\ BatchReturned
    /\ Len(src_objects) = MaxLen
    /\ Len(batch.update_objects) > 0
    /\ Len(batch.create_objects) + Len(batch.unchanged_objects) > 0

UnlinkedMatch(s) ==
    \E j \in 1..Len(src_filter) : src_filter[j].external_id = s.external_id

\* C4: a source object s with no entry in the map is put in the unchanged
\* list (as itself) and not created when the prior destination batch is
\* supplied and holds an object with s.external_id; otherwise s is created.
C4_ExternalIdFallback ==
    BatchReturned =>
        \A i \in 1..Len(src_objects) :
            src_objects[i].id \notin DOMAIN src_id_dst_map =>
                IF UnlinkedMatch(src_objects[i])
                THEN /\ \E j \in 1..Len(batch.unchanged_objects) :
                            batch.unchanged_objects[j] = src_objects[i]
                     /\ CountIn(batch.create_objects, src_objects[i]) = 0
                ELSE /\ CountIn(batch.create_objects, src_objects[i]) = 1
                     /\ CountIn(batch.unchanged_objects, src_objects[i]) = 0

\* C4 witness: one unmapped object matched by external id and left alone,
\* another unmapped object created, against the same supplied batch.
C4_Witness ==
    /\ BatchReturned
    /\ \E i, k \in 1..Len(src_objects) :
            /\ src_objects[i].id \notin DOMAIN src_id_dst_map
            /\ src_objects[i].external_id # NoneVal
            /\ UnlinkedMatch(src_objects[i])
            /\ CountIn(batch.unchanged_objects, src_objects[i]) = 1
            /\ src_objects[k].id \notin DOMAIN src_id_dst_map
            /\ ~UnlinkedMatch(src_objects[k])
            /\ Len(src_filter) > 0
            /\ CountIn(batch.create_objects, src_objects[k]) = 1

-----------------------------------------------------------------------------
(* replication.py: the deletion sets *)

IdsOf(objs) == [i \in 1..Len(objs) |-> objs[i].id]

\* lines 422-426
find_objects_to_delete_not_replicated_in_dst(dst_objs) ==
    IdsOf(SelectSeq(dst_objs, LAMBDA obj : ~MetaTruthyStr(obj, "_replicatedSource")))

\* Mutant of find_objects_to_delete_if_not_in_src: the test of line 446 is
\* dropped, every replicated object is returned.
find_objects_to_delete_replicated(src_objs, dst_objs) ==
    IdsOf(SelectSeq(dst_objs, LAMBDA obj : MetaTruthy(obj, "_replicatedInternalId")))

\* lines 441-448
find_objects_to_delete_if_not_in_src(src_objs, dst_objs) ==
    LET src_obj_ids == {src_objs[i].id : i \in 1..Len(src_objs)}
    IN  IdsOf(SelectSeq(dst_objs, LAMBDA obj :
                /\ MetaTruthy(obj, "_replicatedInternalId")
                /\ obj.metadata["_replicatedInternalId"] \notin src_obj_ids))

-----------------------------------------------------------------------------
(* SpecDelete: the two deletion-set functions over every small source and
   destination listing. *)

\* Destination metadata holding the chosen keys: _replicatedInternalId = rid
\* (rid = 0: the key is missing), _replicatedSource when has_source, and a
\* key the user set when has_user_key.
ChosenMeta(rid, has_source, has_user_key) ==
    [k \in (IF rid # 0 THEN {"_replicatedInternalId"} ELSE {})
            \cup (IF has_source THEN {"_replicatedSource"} ELSE {})
            \cup (IF has_user_key THEN {"unit"} ELSE {}) |->
        IF k = "_replicatedInternalId" THEN rid
        ELSE IF k = "_replicatedSource" THEN ProjectSrc
        ELSE 1]

InitDelete ==
    /\ IdleBuild /\ IdleRetry /\ IdleReplicate /\ IdleHierarchy
    /\ pc = "start"
    /\ src_id_dst_map = <<>> /\ src_filter = <<>> /\ batch = EmptyBatch
    /\ ids_to_delete = <<>>
    /\ \E present \in SUBSET (1..(MaxLen + 1)) :
            /\ Cardinality(present) <= MaxLen
            /\ src_objects = [i \in 1..Cardinality(present) |->
                                SrcEvent(SetToSeq(present)[i], NoneVal, NoneVal)]
    /\ \E n \in 0..MaxDst :
       \E rid \in [1..n -> 0..(MaxLen + 1)] :
       \E has_source \in [1..n -> BOOLEAN] :
       \E has_user_key \in [1..n -> BOOLEAN] :
            dst_objects = [j \in 1..n |->
                DstEvent(10 + j, NoneVal, ChosenMeta(rid[j], has_source[j], has_user_key[j]))]
    /\ IdleOther

FindObjectsToDeleteIfNotInSrc ==
    /\ pc = "start"
    /\ ids_to_delete' = find_objects_to_delete_if_not_in_src(src_objects, dst_objects)
    /\ pc' = "not_in_src"
    /\ UNCHANGED <<src_objects, dst_objects, src_id_dst_map, src_filter, batch>>
    /\ UNCHANGED <<buildVars, retryVars, replicateVars, hierarchyVars>>
    /\ UNCHANGED otherVars

FindObjectsToDeleteNotReplicatedInDst ==
    /\ pc = "start"
    /\ ids_to_delete' = find_objects_to_delete_not_replicated_in_dst(dst_objects)
    /\ pc' = "not_replicated"
    /\ UNCHANGED <<src_objects, dst_objects, src_id_dst_map, src_filter, batch>>
    /\ UNCHANGED <<buildVars, retryVars, replicateVars, hierarchyVars>>
    /\ UNCHANGED otherVars

NextDelete == FindObjectsToDeleteIfNotInSrc \/ FindObjectsToDeleteNotReplicatedInDst

SpecDelete == InitDelete /\ [][NextDelete]_vars

-----------------------------------------------------------------------------
(* Properties of the deletion sets (SpecDelete) *)

SeqToSet(list) == {list[i] : i \in 1..Len(list)}

NoDuplicates(list) == Cardinality(SeqToSet(list)) = Len(list)

\* Destination ids carrying a _replicatedInternalId that is no source id
StaleIds ==
    {dst_objects[j].id : j \in {k \in 1..Len(dst_objects) :
        /\ "_replicatedInternalId" \in DOMAIN dst_objects[k].metadata
        /\ \A i \in 1..Len(src_objects) :
                src_objects[i].id # dst_objects[k].metadata["_replicatedInternalId"]}}

\* Destination ids lacking _replicatedSource
ForeignIds ==
    {dst_objects[j].id : j \in {k \in 1..Len(dst_objects) :
        "_replicatedSource" \notin DOMAIN dst_objects[k].metadata}}

DeletionSetsExact ==
    /\ (pc = "not_in_src") =>
            (SeqToSet(ids_to_delete) = StaleIds /\ NoDuplicates(ids_to_delete))
    /\ (pc = "not_replicated") =>
            (SeqToSet(ids_to_delete) = ForeignIds /\ NoDuplicates(ids_to_delete))

\* C7: find_objects_to_delete_if_not_in_src returns exactly the ids of the
\* destination objects whose _replicatedInternalId matches no source id;
\* find_objects_to_delete_not_replicated_in_dst returns exactly the ids of
\* the destination objects lacking _replicatedSource; and neither step
\* changes its input lists.
C7_DeletionSets ==
    []DeletionSetsExact /\ [][UNCHANGED <<src_objects, dst_objects>>]_vars

\* C7 witness: a stale replica was returned while a live replica was not.
C7_Witness ==
    /\ pc = "not_in_src"
    /\ Len(ids_to_delete) = 1
    /\ Len(src_objects) > 0
    /\ \E j \in 1..Len(dst_objects) :
            /\ "_replicatedInternalId" \in DOMAIN dst_objects[j].metadata
            /\ dst_objects[j].id \notin SeqToSet(ids_to_delete)

-----------------------------------------------------------------------------
(* SpecBuild: every create/update builder that resolves asset links, applied
   to one source object and one asset map. *)

MultiAssetKinds == {"event", "file"}
SingleAssetKinds == {"time_series", "sequence"}

\* Sequences over S of length at most n
SeqsUpTo(S, n) == UNION {[1..k -> S] : k \in 0..n}

\* A source asset a that has a replica is mapped to destination asset 10 + a.
AssetMap(replicated) == [a \in replicated |-> 10 + a]

SrcObject(k, ref) ==
    IF k \in MultiAssetKinds
    THEN [id |-> 1, external_id |-> 1, last_updated_time |-> 1,
          asset_ids |-> ref, metadata |-> EmptyMeta]
    ELSE [id |-> 1, external_id |-> 1, last_updated_time |-> 1,
          asset_id |-> ref, metadata |-> EmptyMeta]

\* The replica of source object 1, linked to destination asset ref
DstObject(k, ref) ==
    IF k \in MultiAssetKinds
    THEN [id |-> 10, external_id |-> 1, last_updated_time |-> 1,
          asset_ids |-> ref, metadata |-> ReplicatedMeta(1, 1)]
    ELSE [id |-> 10, external_id |-> 1, last_updated_time |-> 1,
          asset_id |-> ref, metadata |-> ReplicatedMeta(1, 1)]

InitBuild ==
    /\ IdleBatch /\ IdleDelete /\ IdleRetry /\ IdleReplicate /\ IdleHierarchy
    /\ pc = "start"
    /\ built = <<>>
    /\ resource \in MultiAssetKinds \cup SingleAssetKinds
    /\ op \in {"create", "update"}
    /\ \E replicated \in SUBSET AssetIds : src_dst_ids_assets = AssetMap(replicated)
    /\ \E ref \in (IF resource \in MultiAssetKinds
                   THEN SeqsUpTo(AssetIds, MaxLen) \cup {NoneList}
                   ELSE AssetIds \cup {NoneVal}) :
            src_object = SrcObject(resource, ref)
    /\ \E linked \in BOOLEAN :
            dst_object =
                IF op = "create" THEN <<>>
                ELSE DstObject(resource,
                        IF resource \in MultiAssetKinds
                        THEN (IF linked THEN <<11>> ELSE NoneList)
                        ELSE (IF linked THEN 11 ELSE NoneVal))
    /\ IdleOther

Build ==
    /\ pc = "start"
    /\ built' = IF op = "create"
                 THEN Create(resource, src_object, src_dst_ids_assets, ProjectSrc, Now, NoneVal)
                 ELSE Update(resource, src_object, dst_object, src_dst_ids_assets, ProjectSrc, Now, NoneVal)
    /\ pc' = "built"
    /\ UNCHANGED <<resource, op, src_object, dst_object, src_dst_ids_assets>>
    /\ UNCHANGED <<batchVars, deleteVars, retryVars, replicateVars, hierarchyVars>>
    /\ UNCHANGED otherVars

NextBuild == Build

SpecBuild == InitBuild /\ [][NextBuild]_vars

-----------------------------------------------------------------------------
(* Properties of the builders (SpecBuild) *)

\* The source asset ids the object refers to
ReferencedAssets ==
    IF resource \in MultiAssetKinds
    THEN (IF src_object.asset_ids = NoneList THEN {} ELSE SeqToSet(src_object.asset_ids))
    ELSE (IF src_object.asset_id = NoneVal THEN {} ELSE {src_object.asset_id})

ReferencesAbsentAsset == \E a \in ReferencedAssets : a \notin DOMAIN src_dst_ids_assets

\* The asset ids the built object carries
BuiltAssets ==
    IF resource \in MultiAssetKinds
    THEN (IF built.asset_ids = NoneList THEN {} ELSE SeqToSet(built.asset_ids))
    ELSE (IF built.asset_id = NoneVal THEN {} ELSE {built.asset_id})

\* C6: when the source object references an asset id absent from the map,
\* the builder raises no error and the object it returns carries, for that
\* reference, nothing: only the destination ids of the references that do
\* resolve, never a source asset id (empty or None when none resolves).
C6_ReferenceOmission ==
    (pc = "built" /\ ReferencesAbsentAsset) =>
        /\ ~IsRaised(built)
        /\ BuiltAssets =
                {src_dst_ids_assets[a] : a \in ReferencedAssets \cap DOMAIN src_dst_ids_assets}
        /\ BuiltAssets \cap AssetIds = {}

\* The part of C6 the code keeps: the builders of events and files.
MultiAssetOmission ==
    resource \in MultiAssetKinds => C6_ReferenceOmission

\* A builder of events or files dropped an unresolved reference and kept a
\* resolved one.
MultiAssetWitness ==
    /\ pc = "built" /\ resource \in MultiAssetKinds /\ ReferencesAbsentAsset
    /\ ~IsRaised(built)
    /\ BuiltAssets # {}

-----------------------------------------------------------------------------
(* SpecRetry: replication.retry, one action per call of function. *)

Tries == 3                        \* line 293

\* What a call of function can raise: the exception retry catches, and two
\* it does not.
Caught == {"ReadTimeout"}
NotCaught == {"ConnectTimeout", "CogniteAPIError"}

\* What the store answers for a write of objs: the objects under the ids it
\* gave them (the first m of them).
Stored(objs, m) == [k \in 1..m |-> 10 + objs[k]]

InitRetry ==
    /\ IdleBatch /\ IdleDelete /\ IdleBuild /\ IdleReplicate /\ IdleHierarchy
    /\ pc = "start"
    /\ retry_objects \in SeqsUpTo(ExternalIds, MaxLen)
    /\ attempt = 0
    /\ ret = <<>>
    /\ calls = <<>>
    /\ IdleOther

\* lines 291-294: ret = []; if objects: enter the loop
RetryEnter ==
    /\ pc = "start"
    /\ ret' = <<>>
    /\ attempt' = 0
    /\ pc' = IF retry_objects # <<>> THEN "loop" ELSE "returned"
    /\ UNCHANGED <<retry_objects, calls>>
    /\ UNCHANGED <<batchVars, deleteVars, buildVars, replicateVars, hierarchyVars>>
    /\ UNCHANGED otherVars

\* Mutant of CallReturns: the break of line 298 is missing.
CallReturnsNoBreak ==
    /\ pc = "loop"
    /\ \E m \in 0..Len(retry_objects) :
            /\ ret' = Stored(retry_objects, m)
            /\ calls' = Append(calls, [outcome |-> "returned", result |-> Stored(retry_objects, m)])
    /\ attempt' = attempt + 1
    /\ pc' = IF attempt + 1 < Tries THEN "loop" ELSE "returned"
    /\ UNCHANGED <<retry_objects>>
    /\ UNCHANGED <<batchVars, deleteVars, buildVars, replicateVars, hierarchyVars>>
    /\ UNCHANGED otherVars

\* lines 297-298: function returns; ret is its result; break
CallReturns ==
    /\ pc = "loop"
    /\ \E m \in 0..Len(retry_objects) :
            /\ ret' = Stored(retry_objects, m)
            /\ calls' = Append(calls, [outcome |-> "returned", result |-> Stored(retry_objects, m)])
    /\ pc' = "returned"
    /\ UNCHANGED <<retry_objects, attempt>>
    /\ UNCHANGED <<batchVars, deleteVars, buildVars, replicateVars, hierarchyVars>>
    /\ UNCHANGED otherVars

\* Mutant of CallTimesOut: the last ReadTimeout is raised again.
CallTimesOutRaises ==
    /\ pc = "loop"
    /\ \E e \in Caught : calls' = Append(calls, [outcome |-> e, result |-> <<>>])
    /\ attempt' = attempt + 1
    /\ pc' = IF attempt + 1 < Tries THEN "loop" ELSE "raised"
    /\ UNCHANGED <<retry_objects, ret>>
    /\ UNCHANGED <<batchVars, deleteVars, buildVars, replicateVars, hierarchyVars>>
    /\ UNCHANGED otherVars

\* lines 299-300: function raises ReadTimeout; next iteration, or the loop
\* ends and line 302 returns ret
CallTimesOut ==
    /\ pc = "loop"
    /\ \E e \in Caught : calls' = Append(calls, [outcome |-> e, result |-> <<>>])
    /\ attempt' = attempt + 1
    /\ pc' = IF attempt + 1 < Tries THEN "loop" ELSE "returned"
    /\ UNCHANGED <<retry_objects, ret>>
    /\ UNCHANGED <<batchVars, deleteVars, buildVars, replicateVars, hierarchyVars>>
    /\ UNCHANGED otherVars

\* Mutant of CallRaises: the exception is caught like a ReadTimeout.
CallRaisesCaught ==
    /\ pc = "loop"
    /\ \E e \in NotCaught : calls' = Append(calls, [outcome |-> e, result |-> <<>>])
    /\ attempt' = attempt + 1
    /\ pc' = IF attempt + 1 < Tries THEN "loop" ELSE "returned"
    /\ UNCHANGED <<retry_objects, ret>>
    /\ UNCHANGED <<batchVars, deleteVars, buildVars, replicateVars, hierarchyVars>>
    /\ UNCHANGED otherVars

\* line 297: function raises anything else; it leaves retry
CallRaises ==
    /\ pc = "loop"
    /\ \E e \in NotCaught : calls' = Append(calls, [outcome |-> e, result |-> <<>>])
    /\ pc' = "raised"
    /\ UNCHANGED <<retry_objects, attempt, ret>>
    /\ UNCHANGED <<batchVars, deleteVars, buildVars, replicateVars, hierarchyVars>>
    /\ UNCHANGED otherVars

NextRetry == RetryEnter \/ CallReturns \/ CallTimesOut \/ CallRaises

SpecRetry == InitRetry /\ [][NextRetry]_vars

-----------------------------------------------------------------------------
(* Properties of retry (SpecRetry) *)

ReturnedCalls == {j \in 1..Len(calls) : calls[j].outcome = "returned"}

\* C10: retry calls function zero times and returns [] when objects is
\* empty; otherwise it has called function at least once when it returns and
\* never more than 3 times, a call that returned normally is the last call,
\* and retry returns the result of that call.
C10_RetryCallCount ==
    /\ retry_objects = <<>> => calls = <<>>
    /\ (pc = "returned" /\ retry_objects = <<>>) => ret = <<>>
    /\ (pc = "returned" /\ retry_objects # <<>>) => Len(calls) >= 1
    /\ Len(calls) <= 3
    /\ \A j \in ReturnedCalls : j = Len(calls)
    /\ (pc = "returned" /\ ReturnedCalls # {}) => ret = calls[Len(calls)].result

\* C10 witness: retry returned the non-empty result of its third call.
C10_Witness ==
    /\ pc = "returned"
    /\ Len(calls) = 3
    /\ calls[3].outcome = "returned"
    /\ ret # <<>>
    /\ ret = calls[3].result

RaisedCalls == {j \in 1..Len(calls) : calls[j].outcome \in NotCaught}

ConnectTimeoutCalls == {j \in 1..Len(calls) : calls[j].outcome = "ConnectTimeout"}

\* C26: a connection timeout raised by function is handled like a read
\* timeout: retry does not raise, and after the call that raised it retry
\* either calls function again (fewer than 3 calls made) or has returned.
C26_ConnectTimeoutRetried ==
    \A j \in ConnectTimeoutCalls :
        /\ pc # "raised"
        /\ j = Len(calls) => pc = (IF j < Tries THEN "loop" ELSE "returned")

\* What the code does with a connection timeout: the call that raised it is
\* the last call and retry has raised
ConnectTimeoutPropagates ==
    \A j \in ConnectTimeoutCalls : j = Len(calls) /\ pc = "raised"

\* The read timeout is the one exception retry goes on after
OnlyReadTimeoutRetried ==
    \A j \in 1..Len(calls) : j < Len(calls) => calls[j].outcome = "ReadTimeout"

-----------------------------------------------------------------------------
(* The flat drivers: replicate and copy_* of events.py, files.py,
   sequences.py, time_series.py and relationships.py, and the harness
   replication.thread with its default of one worker thread. *)

FlatKinds == {"event", "file", "sequence", "time_series", "relationship"}

NoPattern == {NoneVal}            \* exclude_pattern = None
BigBatch == 10000                 \* the default batch_size

\* A resource of kind k; ref is its asset link (the parent, for an asset).
Obj(k, i, ext, lut, ref, md) ==
    IF k \in MultiAssetKinds
    THEN [id |-> i, external_id |-> ext, last_updated_time |-> lut, asset_ids |-> ref, metadata |-> md]
    ELSE IF k \in SingleAssetKinds
    THEN [id |-> i, external_id |-> ext, last_updated_time |-> lut, asset_id |-> ref, metadata |-> md]
    ELSE IF k = "asset"
    THEN [id |-> i, external_id |-> ext, last_updated_time |-> lut, parent_id |-> ref,
          parent_external_id |-> NoneVal, metadata |-> md]
    ELSE [id |-> i, external_id |-> ext, last_updated_time |-> lut, metadata |-> md]

NoRef(k) == IF k \in MultiAssetKinds THEN NoneList ELSE NoneVal

RefTo(k, a) == IF k \in MultiAssetKinds THEN <<a>> ELSE a

\* replicated_runtime of the current run
Runtime == Now + runs

\* replication.py 54-58
has_assets(k, obj) ==
    IF k \in MultiAssetKinds THEN obj.asset_ids # NoneList
    ELSE IF k \in SingleAssetKinds THEN obj.asset_id # NoneVal
    ELSE FALSE

\* filter_fn of replicate called on obj: "keep", "skip" or the exception it
\* raises.  events.py 206-209 and files.py 213-216 call _is_copyable, a name
\* those modules do not define; sequences.py 204-207 and time_series.py
\* 197-200 search the pattern in external_id, which must be a string.
filter_fn(k, obj, exclude) ==
    IF k \in {"event", "file"} THEN "NameError"
    ELSE IF exclude = NoPattern THEN "keep"
    ELSE IF obj.external_id = NoneVal THEN "TypeError"
    ELSE IF obj.external_id \in exclude THEN "skip"
    ELSE "keep"

\* Mutant of FilterVerdict: an object is linkable only when every one of its
\* asset ids is a key of the map.
FilterVerdictAllLinked(k, obj, assets_map, skip_unlinkable, skip_nonasset, verdict) ==
    LET asset_id_list == IF k \in MultiAssetKinds THEN obj.asset_ids ELSE <<obj.asset_id>>
    IN  IF verdict # "keep" THEN verdict
        ELSE IF skip_nonasset /\ ~has_assets(k, obj) THEN "skip"
        ELSE IF /\ skip_unlinkable
                /\ has_assets(k, obj)
                /\ \E j \in 1..Len(asset_id_list) : asset_id_list[j] \notin DOMAIN assets_map
             THEN "skip"
        ELSE "keep"

\* replication.py 60-77, for one object on which filter_fn gave verdict
\* ("keep" also when filter_fn is None)
FilterVerdict(k, obj, assets_map, skip_unlinkable, skip_nonasset, verdict) ==
    LET asset_id_list == IF k \in MultiAssetKinds THEN obj.asset_ids ELSE <<obj.asset_id>>
    IN  IF verdict # "keep" THEN verdict
        ELSE IF skip_nonasset /\ ~has_assets(k, obj) THEN "skip"
        ELSE IF /\ skip_unlinkable
                /\ has_assets(k, obj)
                /\ \A j \in 1..Len(asset_id_list) : asset_id_list[j] \notin DOMAIN assets_map
             THEN "skip"
        ELSE "keep"

\* replication.py 60-77 with the filter_fn the replicate functions pass
FilterOne(k, obj, assets_map, skip_unlinkable, skip_nonasset, exclude) ==
    FilterVerdict(k, obj, assets_map, skip_unlinkable, skip_nonasset, filter_fn(k, obj, exclude))

\* replication.py 33-79: the objects kept, or the first exception
filter_objects(k, objs, assets_map, skip_unlinkable, skip_nonasset, exclude) ==
    LET verdict(j) == FilterOne(k, objs[j], assets_map, skip_unlinkable, skip_nonasset, exclude)
        failing == {j \in 1..Len(objs) : verdict(j) \notin {"keep", "skip"}}
    IN  IF failing # {}
        THEN [raised |-> verdict(CHOOSE j \in failing : \A h \in failing : j <= h), kept |-> <<>>]
        ELSE [raised |-> "",
              kept |-> SelectSeq(objs, LAMBDA obj :
                          FilterOne(k, obj, assets_map, skip_unlinkable, skip_nonasset, exclude) = "keep")]

\* client.X.retrieve_multiple(external_ids=..., ignore_unknown_ids=True)
retrieve_multiple(store, external_ids) ==
    SelectSeq(store, LAMBDA obj : obj.external_id \in SeqToSet(external_ids))

\* The destination objects of a list after the update builder rewrote, in
\* place, the ones in updated.
ApplyInPlace(objs, updated) ==
    [j \in 1..Len(objs) |->
        IF \E u \in 1..Len(updated) : updated[u].id = objs[j].id
        THEN updated[CHOOSE u \in 1..Len(updated) : updated[u].id = objs[j].id]
        ELSE objs[j]]

ApplyInPlaceMap(id_dst_map, updated) ==
    [key \in DOMAIN id_dst_map |->
        IF \E u \in 1..Len(updated) : updated[u].id = id_dst_map[key].id
        THEN updated[CHOOSE u \in 1..Len(updated) : updated[u].id = id_dst_map[key].id]
        ELSE id_dst_map[key]]

\* The destination store gives created objects ids of its own.
Assigned(store, created) ==
    LET top == SeqMax({30} \cup {store[j].id : j \in 1..Len(store)})
    IN  [j \in 1..Len(created) |-> [created[j] EXCEPT !.id = top + j]]

Removed(store, ids) == SelectSeq(store, LAMBDA obj : obj.id \notin SeqToSet(ids))

\* The calls of retry(client.X.create, ...) a copy function makes for the
\* create list: one for the list (events.py 130-132, sequences.py 126-128),
\* one per file for files (files.py 125-136).
CreateCalls(k, to_create) ==
    IF k = "file" THEN [j \in 1..Len(to_create) |-> <<to_create[j]>>]
    ELSE IF to_create # <<>> THEN <<to_create>>
    ELSE <<>>

UpdateCalls(to_update) == IF to_update # <<>> THEN <<to_update>> ELSE <<>>

\* What retry can come to: the write succeeded; three ReadTimeouts (retry
\* returns []); CogniteAPIError; any other exception.
WriteOutcomes == {"ok", "exhausted", "CogniteAPIError", "ConnectTimeout"}

\* files.py 129-133 catches CogniteAPIError around the create of a file.
Propagates(k, call, outcome) ==
    /\ outcome \in {"CogniteAPIError", "ConnectTimeout"}
    /\ ~(k = "file" /\ call = "create" /\ outcome = "CogniteAPIError")

\* The write calls of one chunk, in order, until one raises.
WriteFold(k, call, args, outcomes, store0, log0) ==
    LET f[j \in 0..Len(args)] ==
            IF j = 0 THEN [store |-> store0, log |-> log0, error |-> ""]
            ELSE IF f[j - 1].error # "" THEN f[j - 1]
            ELSE [store |-> IF outcomes[j] # "ok" THEN f[j - 1].store
                            ELSE IF call = "create"
                                 THEN f[j - 1].store \o Assigned(f[j - 1].store, args[j])
                                 ELSE ApplyInPlace(f[j - 1].store, args[j]),
                  log |-> Append(f[j - 1].log,
                            [call |-> call, arg |-> args[j], outcome |-> outcomes[j], run |-> runs]),
                  error |-> IF Propagates(k, call, outcomes[j]) THEN outcomes[j] ELSE ""]
    IN  f[Len(args)]

\* One pass of the loop of copy_events / copy_files / copy_seq over chunk:
\* the batch, the destination listing after the in-place updates, the store
\* and its call log after the writes, and the exception that ended the pass.
ChunkResult(trace, create_outcomes, update_outcomes) ==
    LET creates == WriteFold(resource, "create", CreateCalls(resource, trace.create_objects),
                             create_outcomes, dst_store, store_calls)
        updates == WriteFold(resource, "update", UpdateCalls(trace.update_objects),
                             update_outcomes, creates.store, creates.log)
    IN  IF trace.raised # ""
        THEN [store |-> dst_store, log |-> store_calls, error |-> trace.raised]
        ELSE IF creates.error # "" THEN creates
        ELSE updates

ChunkTrace(chunk) ==
    BatchRun(resource, chunk, src_id_dst_map, src_dst_ids_assets, ProjectSrc, Runtime, NoneVal, src_filter)

\* replication.py 337-344
Chunks(n, batch_size) ==
    [c \in 1..((n + batch_size - 1) \div batch_size) |->
        [first |-> (c - 1) * batch_size,
         last |-> IF c * batch_size <= n THEN c * batch_size ELSE n]]

-----------------------------------------------------------------------------
(* replicate of a flat kind, step by step *)

builderVars == <<op, src_object, dst_object, built>>

IdleBuilder == op = "create" /\ src_object = <<>> /\ dst_object = <<>> /\ built = <<>>

Filtering ==
    \/ resource = "time_series"
    \/ /\ resource # "relationship"
       /\ (opts.skip_unlinkable \/ opts.skip_nonasset \/ opts.exclude_pattern # NoPattern)

\* events.py 181-216 (files.py 188-222, sequences.py 174-210, time_series.py
\* 171-203, relationships.py 227-242): fetch both sides, build the map,
\* filter the source objects.
ReplicateFetch ==
    /\ pc = "start"
    /\ resource \in FlatKinds
    /\ LET targeted == opts.target_external_ids # <<>>
           fetched_src == IF targeted THEN retrieve_multiple(src_store, opts.target_external_ids)
                          ELSE src_store
           fetched_dst == IF targeted THEN retrieve_multiple(dst_store, opts.target_external_ids)
                          ELSE dst_store
           filtered == filter_objects(resource, fetched_src, src_dst_ids_assets,
                                      opts.skip_unlinkable, opts.skip_nonasset, opts.exclude_pattern)
       IN  /\ dst_objects' = fetched_dst
           /\ src_filter' = fetched_dst
           /\ src_id_dst_map' = make_id_object_map(fetched_dst)
           /\ IF Filtering /\ filtered.raised # ""
              THEN /\ src_objects' = fetched_src
                   /\ raised' = filtered.raised
                   /\ pc' = "raised"
              ELSE /\ src_objects' = IF Filtering THEN filtered.kept ELSE fetched_src
                   /\ raised' = ""
                   /\ pc' = "copy"
    /\ UNCHANGED <<batch, ids_to_delete, resource, src_dst_ids_assets, builderVars, retryVars>>
    /\ UNCHANGED <<opts, src_store, dst_store, jobs, store_calls, worker_error, runs, hierarchyVars>>
    /\ UNCHANGED otherVars

\* copy_ts passes make_objects_batch a keyword it does not have
\* (time_series.py 112-121), copy_relationships four of them
\* (relationships.py 158-171).
CopyRaisesTypeError == resource \in {"time_series", "relationship"}

\* events.py 240-248: the copy function called directly, on every object
CopyObjects ==
    /\ pc = "copy"
    /\ resource \in FlatKinds
    /\ Len(src_objects) <= opts.batch_size
    /\ IF CopyRaisesTypeError
       THEN /\ raised' = "TypeError"
            /\ pc' = "raised"
            /\ UNCHANGED <<batch, dst_objects, src_filter, src_id_dst_map, dst_store, store_calls>>
       ELSE LET trace == ChunkTrace(src_objects)
            IN  \E create_outcomes \in [1..Len(CreateCalls(resource, trace.create_objects)) -> WriteOutcomes] :
                \E update_outcomes \in [1..Len(UpdateCalls(trace.update_objects)) -> WriteOutcomes] :
                    LET result == ChunkResult(trace, create_outcomes, update_outcomes)
                    IN  /\ batch' = trace
                        /\ dst_objects' = ApplyInPlace(dst_objects, trace.update_objects)
                        /\ src_filter' = ApplyInPlace(src_filter, trace.update_objects)
                        /\ src_id_dst_map' = ApplyInPlaceMap(src_id_dst_map, trace.update_objects)
                        /\ dst_store' = result.store
                        /\ store_calls' = result.log
                        /\ raised' = result.error
                        /\ pc' = IF result.error # "" THEN "raised" ELSE "delete"
    /\ UNCHANGED <<src_objects, ids_to_delete, resource, src_dst_ids_assets, builderVars, retryVars>>
    /\ UNCHANGED <<opts, src_store, jobs, worker_error, runs, hierarchyVars>>
    /\ UNCHANGED otherVars

\* events.py 226-238 and replication.py 334-371: the chunks are queued and
\* the worker thread is started.  time_series.py 208-218 calls thread
\* without batch_size, relationships.py 247-261 with keywords it does not
\* have: TypeError.
ThreadStart ==
    /\ pc = "copy"
    /\ resource \in FlatKinds
    /\ Len(src_objects) > opts.batch_size
    /\ IF CopyRaisesTypeError
       THEN /\ raised' = "TypeError"
            /\ pc' = "raised"
            /\ UNCHANGED jobs
       ELSE /\ jobs' = Chunks(Len(src_objects), opts.batch_size)
            /\ pc' = "thread"
            /\ UNCHANGED raised
    /\ UNCHANGED <<batchVars, ids_to_delete, buildVars, retryVars>>
    /\ UNCHANGED <<opts, src_store, dst_store, store_calls, worker_error, runs, hierarchyVars>>
    /\ UNCHANGED otherVars

\* thread passes the copy function nine positional arguments
\* (replication.py 355-365); copy_events takes eight (events.py 78-87).
WorkerRaisesTypeError == resource = "event"

\* The worker thread: one pass of the loop of the copy function over the
\* chunk at the head of the queue.  An exception ends the thread.
WorkerCopyChunk ==
    /\ pc = "thread"
    /\ worker_error = ""
    /\ IF WorkerRaisesTypeError
       THEN /\ worker_error' = "TypeError"
            /\ UNCHANGED <<batch, dst_objects, src_filter, src_id_dst_map, dst_store, store_calls, jobs>>
       ELSE /\ jobs # <<>>
            /\ LET chunk == SubSeq(src_objects, Head(jobs).first + 1, Head(jobs).last)
                   trace == ChunkTrace(chunk)
               IN  \E create_outcomes \in [1..Len(CreateCalls(resource, trace.create_objects)) -> WriteOutcomes] :
                   \E update_outcomes \in [1..Len(UpdateCalls(trace.update_objects)) -> WriteOutcomes] :
                       LET result == ChunkResult(trace, create_outcomes, update_outcomes)
                       IN  /\ batch' = trace
                           /\ dst_objects' = ApplyInPlace(dst_objects, trace.update_objects)
                           /\ src_filter' = ApplyInPlace(src_filter, trace.update_objects)
                           /\ src_id_dst_map' = ApplyInPlaceMap(src_id_dst_map, trace.update_objects)
                           /\ dst_store' = result.store
                           /\ store_calls' = result.log
                           /\ worker_error' = result.error
                           /\ jobs' = Tail(jobs)
    /\ UNCHANGED <<pc, src_objects, ids_to_delete, resource, src_dst_ids_assets, builderVars, retryVars>>
    /\ UNCHANGED <<opts, src_store, raised, runs, hierarchyVars>>
    /\ UNCHANGED otherVars

\* replication.py 373-375: join returns when the worker has left its loop
\* (the queue is empty) or has died
ThreadJoin ==
    /\ pc = "thread"
    /\ jobs = <<>> \/ worker_error # ""
    /\ pc' = "delete"
    /\ UNCHANGED <<batchVars, ids_to_delete, buildVars, retryVars, replicateVars, hierarchyVars>>
    /\ UNCHANGED otherVars

\* What a delete call can come to
DeleteOutcomes == {"ok", "CogniteAPIError"}

\* Mutant of DeleteReplicatedIfNotInSrc: the test of the flag is missing.
DeleteReplicatedAlways ==
    /\ pc = "delete"
    /\ LET ids == find_objects_to_delete_if_not_in_src(src_objects, dst_objects)
       IN  /\ ids_to_delete' = ids
           /\ store_calls' = Append(store_calls,
                    [call |-> "delete", arg |-> ids, outcome |-> "ok", run |-> runs])
           /\ dst_store' = Removed(dst_store, ids)
           /\ pc' = "delete_not_replicated"
    /\ UNCHANGED <<batchVars, buildVars, retryVars, hierarchyVars>>
    /\ UNCHANGED <<opts, src_store, jobs, raised, worker_error, runs>>
    /\ UNCHANGED otherVars

\* events.py 255-261 (assets.py 293-299, files.py 260-266, sequences.py
\* 252-258, relationships.py 287-294, where the call is skipped for an
\* empty list)
DeleteReplicatedIfNotInSrc ==
    /\ pc = "delete"
    /\ IF opts.delete_replicated_if_not_in_src
       THEN LET ids == find_objects_to_delete_if_not_in_src(src_objects, dst_objects)
                called == resource # "relationship" \/ ids # <<>>
            IN  /\ ids_to_delete' = ids
                /\ \E outcome \in (IF called THEN DeleteOutcomes ELSE {"ok"}) :
                    /\ store_calls' = IF called
                                      THEN Append(store_calls, [call |-> "delete", arg |-> ids,
                                                                outcome |-> outcome, run |-> runs])
                                      ELSE store_calls
                    /\ dst_store' = IF called /\ outcome = "ok" THEN Removed(dst_store, ids) ELSE dst_store
                    /\ raised' = IF outcome = "ok" THEN "" ELSE outcome
                    /\ pc' = IF outcome = "ok" THEN "delete_not_replicated" ELSE "raised"
       ELSE /\ pc' = "delete_not_replicated"
            /\ UNCHANGED <<ids_to_delete, store_calls, dst_store, raised>>
    /\ UNCHANGED <<batchVars, buildVars, retryVars, hierarchyVars>>
    /\ UNCHANGED <<opts, src_store, jobs, worker_error, runs>>
    /\ UNCHANGED otherVars

\* events.py 262-268 and its counterparts; then replicate returns
DeleteNotReplicatedInDst ==
    /\ pc = "delete_not_replicated"
    /\ IF opts.delete_not_replicated_in_dst
       THEN LET ids == find_objects_to_delete_not_replicated_in_dst(dst_objects)
                called == resource # "relationship" \/ ids # <<>>
            IN  /\ ids_to_delete' = ids
                /\ \E outcome \in (IF called THEN DeleteOutcomes ELSE {"ok"}) :
                    /\ store_calls' = IF called
                                      THEN Append(store_calls, [call |-> "delete", arg |-> ids,
                                                                outcome |-> outcome, run |-> runs])
                                      ELSE store_calls
                    /\ dst_store' = IF called /\ outcome = "ok" THEN Removed(dst_store, ids) ELSE dst_store
                    /\ raised' = IF outcome = "ok" THEN "" ELSE outcome
                    /\ pc' = IF outcome = "ok" THEN "done" ELSE "raised"
                    /\ runs' = IF outcome = "ok" THEN runs + 1 ELSE runs
       ELSE /\ pc' = "done"
            /\ runs' = runs + 1
            /\ UNCHANGED <<ids_to_delete, store_calls, dst_store, raised>>
    /\ UNCHANGED <<batchVars, buildVars, retryVars, hierarchyVars>>
    /\ UNCHANGED <<opts, src_store, jobs, worker_error>>
    /\ UNCHANGED otherVars

-----------------------------------------------------------------------------
(* assets.py: the hierarchy walker *)

\* Mutant of find_children: the parents are returned with their children.
find_children_with_parents(assets, parent_ids) ==
    SelectSeq(assets, LAMBDA asset : asset.parent_id \in parent_ids \/ asset.id \in parent_ids)

\* assets.py 82-83; parent_ids is {NoneVal} for parents = [None], and the ids
\* of the parents otherwise
find_children(assets, parent_ids) ==
    SelectSeq(assets, LAMBDA asset : asset.parent_id \in parent_ids)

\* Mutant of existing_mapping: the objects are not merged into the map.
existing_mapping_not_merged(objs, ids) == ids

\* replication.py 93-100
existing_mapping(objs, ids) ==
    LET replicas == {j \in 1..Len(objs) : MetaTruthy(objs[j], "_replicatedInternalId")}
        keys == {objs[j].metadata["_replicatedInternalId"] : j \in replicas}
    IN  [key \in keys \cup DOMAIN ids |->
            IF key \in keys
            THEN objs[SeqMax({j \in replicas : objs[j].metadata["_replicatedInternalId"] = key})].id
            ELSE ids[key]]

\* assets.py 209-211
IsSubtreeRoot(asset, subtree_ids, subtree_external_ids) ==
    \/ asset.id \in SeqToSet(subtree_ids)
    \/ asset.external_id \in SeqToSet(subtree_external_ids)

\* metadata with key set to value
WithKey(md, key, value) ==
    [h \in DOMAIN md \cup {key} |-> IF h = key THEN value ELSE md[h]]

\* Mutant of UnlinkOne: the parent's external id is cleared but not kept.
UnlinkOneDropsExternalId(asset, subtree_ids, subtree_external_ids) ==
    IF ~IsSubtreeRoot(asset, subtree_ids, subtree_external_ids) THEN asset
    ELSE LET with_id == IF Truthy(asset.parent_id)
                        THEN WithKey(asset.metadata, "_replicatedOriginalParentId", asset.parent_id)
                        ELSE asset.metadata
         IN  [asset EXCEPT !.metadata = with_id,
                           !.parent_id = NoneVal,
                           !.parent_external_id = NoneVal]

\* assets.py 208-221, for one asset (metadata None is the empty metadata
\* here, so lines 213-214 change nothing)
UnlinkOne(asset, subtree_ids, subtree_external_ids) ==
    IF ~IsSubtreeRoot(asset, subtree_ids, subtree_external_ids) THEN asset
    ELSE LET with_id == IF Truthy(asset.parent_id)
                        THEN WithKey(asset.metadata, "_replicatedOriginalParentId", asset.parent_id)
                        ELSE asset.metadata
             with_ext == IF Truthy(asset.parent_external_id)
                         THEN WithKey(with_id, "_replicatedOriginalParentExternalId",
                                      asset.parent_external_id)
                         ELSE with_id
         IN  [asset EXCEPT !.metadata = with_ext,
                           !.parent_id = NoneVal,
                           !.parent_external_id = NoneVal]

\* assets.py 197-221
unlink_subtree_parents(assets, subtree_ids, subtree_external_ids) ==
    [j \in 1..Len(assets) |-> UnlinkOne(assets[j], subtree_ids, subtree_external_ids)]

\* client.assets.retrieve_subtree(id=root, depth=max_depth): the root and
\* its descendants down to max_depth levels (all of them for None)
retrieve_subtree(store, root, max_depth) ==
    LET level[d \in 0..Len(store)] ==
            IF d = 0 THEN {j \in 1..Len(store) : store[j].id = root}
            ELSE {j \in 1..Len(store) : \E h \in level[d - 1] : store[j].parent_id = store[h].id}
        deepest == IF max_depth = NoneVal \/ max_depth > Len(store) THEN Len(store) ELSE max_depth
        members == UNION {level[d] : d \in 0..deepest}
    IN  SelectSeq(store, LAMBDA asset : \E j \in members : store[j] = asset)

\* assets.py 250-264
FetchAssets ==
    IF opts.subtree_ids = <<>> THEN src_store
    ELSE LET gather[j \in 0..Len(opts.subtree_ids)] ==
                IF j = 0 THEN <<>>
                ELSE gather[j - 1] \o retrieve_subtree(src_store, opts.subtree_ids[j], opts.subtree_max_depth)
         IN  gather[Len(opts.subtree_ids)]

\* assets.py 99-117 against the store as it is: the replicas found by
\* _replicatedInternalId, and the assets still to create
AlreadyCreated(store, asset) ==
    SelectSeq(store, LAMBDA item :
        /\ "_replicatedInternalId" \in DOMAIN item.metadata
        /\ item.metadata["_replicatedInternalId"] = asset.metadata["_replicatedInternalId"])

AssetsFound(store, assets) ==
    LET f[j \in 0..Len(assets)] ==
            IF j = 0 THEN <<>>
            ELSE IF AlreadyCreated(store, assets[j]) # <<>>
                 THEN Append(f[j - 1], AlreadyCreated(store, assets[j])[1])
                 ELSE f[j - 1]
    IN  f[Len(assets)]

AssetsMissing(store, assets) ==
    SelectSeq(assets, LAMBDA asset : AlreadyCreated(store, asset) = <<>>)

\* One pass of the loop of create_hierarchy (assets.py 155-192) after the
\* batch is made: retry(create_assets_replicated_id_validation, ...), then
\* retry(client.assets.update, ...); the lists they return, the store and
\* its call log, and the exception that left the loop.
LevelResult(trace, create_outcome, update_outcome) ==
    LET creating == trace.create_objects # <<>>
        missing == AssetsMissing(dst_store, trace.create_objects)
        stored == Assigned(dst_store, missing)
        created == IF creating /\ create_outcome = "ok"
                   THEN AssetsFound(dst_store, trace.create_objects) \o stored
                   ELSE <<>>
        store1 == IF creating /\ create_outcome = "ok" THEN dst_store \o stored ELSE dst_store
        log1 == IF creating
                THEN Append(store_calls, [call |-> IF missing # <<>> THEN "create" ELSE "list",
                                          arg |-> missing, outcome |-> create_outcome, run |-> runs])
                ELSE store_calls
        create_error == IF creating /\ Propagates("asset", "create", create_outcome)
                        THEN create_outcome ELSE ""
        updating == trace.update_objects # <<>>
        updated == IF updating /\ update_outcome = "ok" THEN trace.update_objects ELSE <<>>
        store2 == IF updating /\ update_outcome = "ok"
                  THEN ApplyInPlace(store1, trace.update_objects) ELSE store1
        log2 == IF updating
                THEN Append(log1, [call |-> "update", arg |-> trace.update_objects,
                                   outcome |-> update_outcome, run |-> runs])
                ELSE log1
        update_error == IF updating /\ Propagates("asset", "update", update_outcome)
                        THEN update_outcome ELSE ""
    IN  IF trace.raised # ""
        THEN [store |-> dst_store, log |-> store_calls, error |-> trace.raised, written |-> <<>>]
        ELSE IF create_error # ""
        THEN [store |-> store1, log |-> log1, error |-> create_error, written |-> <<>>]
        ELSE [store |-> store2, log |-> log2, error |-> update_error, written |-> created \o updated]

\* assets.py 247-277 and 146-153: fetch both sides, then the start of
\* create_hierarchy
HierarchyStart ==
    /\ pc = "start"
    /\ resource = "asset"
    /\ LET assets_src == IF opts.subtree_ids # <<>>
                         THEN unlink_subtree_parents(FetchAssets, opts.subtree_ids, opts.subtree_external_ids)
                         ELSE FetchAssets
           roots == find_children(assets_src, {NoneVal})
       IN  /\ src_objects' = assets_src
           /\ dst_objects' = dst_store
           /\ src_id_dst_map' = make_id_object_map(dst_store)
           /\ depth' = 0
           /\ children' = roots
           /\ src_dst_ids' = <<>>
           /\ pc' = IF roots # <<>> THEN "hierarchy" ELSE "delete"
    /\ UNCHANGED <<src_filter, batch, ids_to_delete, buildVars, retryVars, replicateVars>>
    /\ UNCHANGED otherVars

\* Mutant of HierarchyLevel: the test of subtree_max_depth (lines 189-191)
\* is missing.
HierarchyLevelNoBound ==
    /\ pc = "hierarchy"
    /\ LET trace == BatchRun("asset", children, src_id_dst_map, src_dst_ids,
                             ProjectSrc, Runtime, depth, <<>>)
       IN  \E create_outcome \in (IF trace.create_objects # <<>> THEN WriteOutcomes ELSE {"ok"}) :
           \E update_outcome \in (IF trace.update_objects # <<>> THEN WriteOutcomes ELSE {"ok"}) :
               LET result == LevelResult(trace, create_outcome, update_outcome)
                   next_children == find_children(src_objects, {children[j].id : j \in 1..Len(children)})
                   max_reached == FALSE
               IN  /\ batch' = trace
                   /\ dst_objects' = ApplyInPlace(dst_objects, trace.update_objects)
                   /\ src_id_dst_map' = ApplyInPlaceMap(src_id_dst_map, trace.update_objects)
                   /\ dst_store' = result.store
                   /\ store_calls' = result.log
                   /\ raised' = result.error
                   /\ IF result.error # ""
                      THEN /\ pc' = "raised"
                           /\ UNCHANGED <<depth, children, src_dst_ids>>
                      ELSE /\ src_dst_ids' = existing_mapping(result.written \o trace.unchanged_objects,
                                                              src_dst_ids)
                           /\ depth' = depth + 1
                           /\ children' = IF max_reached THEN children ELSE next_children
                           /\ pc' = IF max_reached \/ next_children = <<>> THEN "delete" ELSE "hierarchy"
    /\ UNCHANGED <<src_objects, src_filter, ids_to_delete, buildVars, retryVars>>
    /\ UNCHANGED <<opts, src_store, jobs, worker_error, runs>>
    /\ UNCHANGED otherVars

\* assets.py 155-192: one depth of the hierarchy
HierarchyLevel ==
    /\ pc = "hierarchy"
    /\ LET trace == BatchRun("asset", children, src_id_dst_map, src_dst_ids,
                             ProjectSrc, Runtime, depth, <<>>)
       IN  \E create_outcome \in (IF trace.create_objects # <<>> THEN WriteOutcomes ELSE {"ok"}) :
           \E update_outcome \in (IF trace.update_objects # <<>> THEN WriteOutcomes ELSE {"ok"}) :
               LET result == LevelResult(trace, create_outcome, update_outcome)
                   next_children == find_children(src_objects, {children[j].id : j \in 1..Len(children)})
                   max_reached == opts.subtree_max_depth # NoneVal /\ depth + 1 > opts.subtree_max_depth
               IN  /\ batch' = trace
                   /\ dst_objects' = ApplyInPlace(dst_objects, trace.update_objects)
                   /\ src_id_dst_map' = ApplyInPlaceMap(src_id_dst_map, trace.update_objects)
                   /\ dst_store' = result.store
                   /\ store_calls' = result.log
                   /\ raised' = result.error
                   /\ IF result.error # ""
                      THEN /\ pc' = "raised"
                           /\ UNCHANGED <<depth, children, src_dst_ids>>
                      ELSE /\ src_dst_ids' = existing_mapping(result.written \o trace.unchanged_objects,
                                                              src_dst_ids)
                           /\ depth' = depth + 1
                           /\ children' = IF max_reached THEN children ELSE next_children
                           /\ pc' = IF max_reached \/ next_children = <<>> THEN "delete" ELSE "hierarchy"
    /\ UNCHANGED <<src_objects, src_filter, ids_to_delete, buildVars, retryVars>>
    /\ UNCHANGED <<opts, src_store, jobs, worker_error, runs>>
    /\ UNCHANGED otherVars

-----------------------------------------------------------------------------
(* SpecReplicate: one run of replicate, for every resource kind and every
   combination of its options, over small projects. *)

ReplicateKinds == FlatKinds \cup {"asset"}

\* The source project: objects 1..n.  Object i carries external id i unless
\* it lost it (named[i] = FALSE); linked[i]: it refers to source asset 1
\* (an asset: it is the child of asset i - 1).
SrcStore(k, n, named, linked) ==
    [i \in 1..n |->
        Obj(k, i, IF named[i] THEN i ELSE NoneVal, SeqMax(Times),
            IF k = "asset" THEN (IF linked[i] /\ i > 1 THEN i - 1 ELSE NoneVal)
            ELSE IF linked[i] THEN RefTo(k, 1)
            ELSE NoRef(k),
            EmptyMeta)]

\* The destination project: for each i with prov[i] # 0 the replica of
\* source object i, made at time prov[i] under external id i; and one
\* object of the destination's own per external id in foreign.
DstStore(k, prov, foreign) ==
    LET replicas == SetToSeq({i \in DOMAIN prov : prov[i] # 0})
        own == SetToSeq(foreign)
    IN  [j \in 1..Len(replicas) |->
            Obj(k, 10 + replicas[j], replicas[j], prov[replicas[j]], NoRef(k),
                ReplicatedMeta(replicas[j], prov[replicas[j]]))]
        \o [j \in 1..Len(own) |-> Obj(k, 20 + own[j], own[j], 1, NoRef(k), EmptyMeta)]

DefaultOpts ==
    [delete_replicated_if_not_in_src |-> FALSE, delete_not_replicated_in_dst |-> FALSE,
     skip_unlinkable |-> FALSE, skip_nonasset |-> FALSE, exclude_pattern |-> NoPattern,
     target_external_ids |-> <<>>, batch_size |-> BigBatch,
     subtree_ids |-> <<>>, subtree_external_ids |-> <<>>, subtree_max_depth |-> NoneVal]

\* The options replicate of kind k takes, over small domains
OptsOf(k) ==
    {o \in [delete_replicated_if_not_in_src : BOOLEAN, delete_not_replicated_in_dst : BOOLEAN,
            skip_unlinkable : BOOLEAN, skip_nonasset : BOOLEAN, exclude_pattern : {NoPattern, {1}},
            target_external_ids : {<<>>, <<1>>}, batch_size : {1, BigBatch},
            subtree_ids : {<<>>}, subtree_external_ids : {<<>>}, subtree_max_depth : {NoneVal}] :
        /\ k \in {"asset", "relationship"} =>
                ~o.skip_unlinkable /\ ~o.skip_nonasset /\ o.exclude_pattern = NoPattern
        /\ k = "asset" => o.target_external_ids = <<>> /\ o.batch_size = BigBatch}

IdleLocals ==
    /\ pc = "start"
    /\ src_objects = <<>> /\ dst_objects = <<>> /\ src_id_dst_map = <<>>
    /\ src_filter = <<>> /\ batch = EmptyBatch /\ ids_to_delete = <<>>
    /\ jobs = <<>> /\ store_calls = <<>> /\ raised = "" /\ worker_error = "" /\ runs = 0
    /\ IdleHierarchy /\ IdleBuilder /\ IdleRetry

InitReplicate ==
    /\ IdleLocals
    /\ resource \in ReplicateKinds
    /\ opts \in OptsOf(resource)
    /\ \E replicated \in SUBSET {1} : src_dst_ids_assets = AssetMap(replicated)
    /\ \E n \in 0..MaxLen :
       \E named \in [1..n -> BOOLEAN] :
       \E linked \in [1..n -> BOOLEAN] :
            /\ \A i \in 2..n : named[i]
            /\ src_store = SrcStore(resource, n, named, linked)
    /\ \E prov \in [1..(MaxLen + 1) -> Times \cup {0}] :
       \E foreign \in SUBSET {2} :
            /\ \A i \in 2..MaxLen : prov[i] = 0
            /\ prov[MaxLen + 1] # 1
            /\ dst_store = DstStore(resource, prov, foreign)
    /\ IdleOther

NextReplicate ==
    \/ ReplicateFetch
    \/ CopyObjects
    \/ ThreadStart
    \/ WorkerCopyChunk
    \/ ThreadJoin
    \/ HierarchyStart
    \/ HierarchyLevel
    \/ DeleteReplicatedIfNotInSrc
    \/ DeleteNotReplicatedInDst

SpecReplicate == InitReplicate /\ [][NextReplicate]_vars

-----------------------------------------------------------------------------
(* Properties of replicate (SpecReplicate) *)

DeleteCalls == {j \in 1..Len(store_calls) : store_calls[j].call = "delete"}

\* C8: when delete_replicated_if_not_in_src and delete_not_replicated_in_dst
\* are both false, the destination store receives no delete call during the
\* run, whatever the kind, the other options and the contents.
C8_NoImplicitDeletion ==
    (~opts.delete_replicated_if_not_in_src /\ ~opts.delete_not_replicated_in_dst)
        => DeleteCalls = {}

\* C8 witness: a run without the flags came to its end, wrote to the store,
\* and left in place a stale replica and an object of the destination's own.
C8_Witness ==
    /\ pc = "done"
    /\ ~opts.delete_replicated_if_not_in_src /\ ~opts.delete_not_replicated_in_dst
    /\ store_calls # <<>>
    /\ find_objects_to_delete_if_not_in_src(src_objects, dst_objects) # <<>>
    /\ find_objects_to_delete_not_replicated_in_dst(dst_objects) # <<>>

SourceStillExists(dst) ==
    /\ "_replicatedInternalId" \in DOMAIN dst.metadata
    /\ \E i \in 1..Len(src_store) : src_store[i].id = dst.metadata["_replicatedInternalId"]

\* C9: events.replicate with delete_replicated_if_not_in_src (and without
\* delete_not_replicated_in_dst) never deletes a destination event whose
\* source event is still in the source project.
C9_DeleteOnlyIfGone ==
    (/\ resource = "event"
     /\ opts.delete_replicated_if_not_in_src
     /\ ~opts.delete_not_replicated_in_dst)
        => \A j \in DeleteCalls :
           \A d \in 1..Len(dst_objects) :
                (/\ store_calls[j].outcome = "ok"
                 /\ dst_objects[d].id \in SeqToSet(store_calls[j].arg))
                    => ~SourceStillExists(dst_objects[d])

-----------------------------------------------------------------------------
(* SpecHierarchy: assets.replicate of a source forest into an empty
   destination. *)

\* parent is a forest on 1..n: from every asset the parent links lead to a
\* root (parent NoneVal).
IsForest(parent, n) ==
    \A i \in 1..n :
        LET up[h \in 0..n] ==
                IF h = 0 THEN i
                ELSE IF up[h - 1] = NoneVal THEN NoneVal
                ELSE parent[up[h - 1]]
        IN  up[n] = NoneVal

InitHierarchy ==
    /\ IdleLocals
    /\ resource = "asset"
    /\ src_dst_ids_assets = <<>>
    /\ \E max_depth \in {NoneVal, 1} : opts = [DefaultOpts EXCEPT !.subtree_max_depth = max_depth]
    /\ dst_store = <<>>
    /\ \E n \in 0..MaxAssets :
       \E parent \in [1..n -> (1..n) \cup {NoneVal}] :
            /\ IsForest(parent, n)
            /\ src_store = [i \in 1..n |-> Obj("asset", i, i, SeqMax(Times), parent[i], EmptyMeta)]
    /\ IdleOther

NextHierarchy ==
    \/ HierarchyStart
    \/ HierarchyLevel
    \/ DeleteReplicatedIfNotInSrc
    \/ DeleteNotReplicatedInDst

SpecHierarchy == InitHierarchy /\ [][NextHierarchy]_vars

-----------------------------------------------------------------------------
(* Properties of the hierarchy walker (SpecHierarchy) *)

AllWritesOk == \A j \in 1..Len(store_calls) : store_calls[j].outcome = "ok"

\* The parent id of the source asset a sent object was built from
SourceParentOf(sent) ==
    LET i == CHOOSE i \in 1..Len(src_store) : src_store[i].id = sent.metadata["_replicatedInternalId"]
    IN  src_store[i].parent_id

\* The objects sent to client.assets.create at a depth > 0
SentBelowRoot ==
    {sent \in UNION {SeqToSet(store_calls[j].arg) :
                        j \in {h \in 1..Len(store_calls) : store_calls[h].call = "create"}} :
        SourceParentOf(sent) # NoneVal}

\* C5: into an empty destination and with every write succeeding, every
\* asset created at depth > 0 is sent with parent_id equal to the id the
\* destination store gave the replica of its source parent in this run;
\* never the source parent id and never None.
C5_ParentResolution ==
    AllWritesOk =>
        \A sent \in SentBelowRoot :
            /\ \E d \in 1..Len(dst_store) :
                    /\ dst_store[d].metadata["_replicatedInternalId"] = SourceParentOf(sent)
                    /\ sent.parent_id = dst_store[d].id
            /\ sent.parent_id # SourceParentOf(sent)
            /\ sent.parent_id # NoneVal

\* C5 witness: the run ended with a grandchild created under the replica of
\* its parent, itself created under the replica of the root.
C5_Witness ==
    /\ pc = "done"
    /\ AllWritesOk
    /\ \E sent \in SentBelowRoot :
       \E d \in 1..Len(dst_store) :
            /\ dst_store[d].metadata["_replicatedInternalId"] = SourceParentOf(sent)
            /\ sent.parent_id = dst_store[d].id
            /\ dst_store[d].parent_id # NoneVal

-----------------------------------------------------------------------------
(* SpecRerun: events.replicate or assets.replicate called again and again,
   with default options, over the same source project. *)

\* The caller starts replicate anew; the locals of the last call are gone.
Rerun ==
    /\ pc = "done"
    /\ runs < MaxRuns
    /\ pc' = "start"
    /\ src_objects' = <<>> /\ dst_objects' = <<>> /\ src_id_dst_map' = <<>>
    /\ src_filter' = <<>> /\ batch' = EmptyBatch
    /\ ids_to_delete' = <<>>
    /\ depth' = 0 /\ children' = <<>> /\ src_dst_ids' = <<>>
    /\ UNCHANGED <<buildVars, retryVars, replicateVars>>
    /\ UNCHANGED otherVars

InitRerun ==
    /\ IdleLocals
    /\ resource \in {"event", "asset"}
    /\ opts = DefaultOpts
    /\ \E replicated \in SUBSET {1} :
            /\ resource = "asset" => replicated = {}
            /\ src_dst_ids_assets = AssetMap(replicated)
    /\ \E n \in 0..MaxLen :
       \E named \in [1..n -> BOOLEAN] :
       \E linked \in [1..n -> BOOLEAN] :
       \E lut \in [1..n -> Times \cup {Now, NoneVal}] :
            /\ \A i \in 2..n : named[i]
            /\ \A i \in 1..n : linked[i] <=> (i = IF resource = "asset" THEN 2 ELSE 1)
            /\ src_store = [i \in 1..n |->
                    [SrcStore(resource, n, named, linked)[i] EXCEPT !.last_updated_time = lut[i]]]
    /\ \E prov \in [1..MaxLen -> Times \cup {0}] :
       \E foreign \in SUBSET {MaxLen} :
            /\ \A e \in foreign : prov[e] = 0
            /\ dst_store = DstStore(resource, prov, foreign)
    /\ IdleOther

NextRerun ==
    \/ ReplicateFetch
    \/ CopyObjects
    \/ HierarchyStart
    \/ HierarchyLevel
    \/ DeleteReplicatedIfNotInSrc
    \/ DeleteNotReplicatedInDst
    \/ Rerun

SpecRerun == InitRerun /\ [][NextRerun]_vars

-----------------------------------------------------------------------------
(* Properties of repeated runs (SpecRerun) *)

Writes == {"create", "update"}

AllTimesSet == \A i \in 1..Len(src_store) : src_store[i].last_updated_time # NoneVal

\* Every create and every update of the first run succeeded
FirstRunClean ==
    \A j \in 1..Len(store_calls) :
        (store_calls[j].run = 0 /\ store_calls[j].call \in Writes) => store_calls[j].outcome = "ok"

\* A run after the first is under way or has ended
LaterRun == (runs >= 1 /\ pc # "done") \/ runs >= 2

\* The run that just ended left every source object unchanged
AllUnchanged ==
    IF resource = "asset"
    THEN \A i \in 1..Len(src_store) : src_store[i].id \in DOMAIN src_dst_ids
    ELSE Len(batch.unchanged_objects) = Len(src_store)

\* C1: when every source object has last_updated_time set (no later than
\* the time of the first run) and every create and update of the first run
\* succeeded, a later run over the same source and the destination the
\* first run left sends no create and no update, classifies nothing for
\* creation or update, and ends with every source object unchanged.
C1_IdempotentRerun ==
    (AllTimesSet /\ FirstRunClean) =>
        /\ \A j \in 1..Len(store_calls) :
                store_calls[j].run >= 1 => store_calls[j].call \notin Writes
        /\ LaterRun =>
                /\ batch.create_objects = <<>> /\ batch.update_objects = <<>>
                /\ batch.raised = "" /\ pc # "raised"
        /\ (runs >= 2 /\ pc = "done") => AllUnchanged

\* C1 witness: the first run created and updated, all of it succeeded, and
\* the second run ended without a write.
C1_Witness ==
    /\ runs = 2 /\ pc = "done"
    /\ AllTimesSet /\ FirstRunClean
    /\ \E j \in 1..Len(store_calls) : store_calls[j].run = 0 /\ store_calls[j].call = "create"
    /\ \E j \in 1..Len(store_calls) : store_calls[j].run = 0 /\ store_calls[j].call = "update"
    /\ \A j \in 1..Len(store_calls) : store_calls[j].run = 1 => store_calls[j].call \notin Writes
    /\ AllUnchanged

-----------------------------------------------------------------------------
(* SpecWrite: the writes of one pass of copy_events (events.py 128-140) and
   of create_hierarchy (assets.py 168-192), each through retry, one call of
   the store at a time.  retry is handed the objects by the source ids they
   replicate; the store answers with the ids of their replicas. *)

SourceIdsOf(objs) == [j \in 1..Len(objs) |-> objs[j].metadata["_replicatedInternalId"]]

\* The objects the store returned: the first of objs, under the ids in ids
Returned(objs, ids) == [j \in 1..Len(ids) |-> [objs[j] EXCEPT !.id = ids[j]]]

\* What the call of retry came to, for the log
RetryOutcome ==
    IF calls = <<>> \/ calls[Len(calls)].outcome = "returned" THEN "ok" ELSE "exhausted"

InitWrite ==
    /\ IdleDelete /\ IdleRetry
    /\ resource \in {"event", "asset"}
    /\ opts = DefaultOpts
    /\ src_dst_ids_assets = <<>> /\ src_object = <<>> /\ dst_object = <<>> /\ built = <<>>
    /\ jobs = <<>> /\ store_calls = <<>> /\ raised = "" /\ worker_error = "" /\ runs = 0
    /\ depth = 0 /\ src_dst_ids = <<>>
    /\ \E n \in 1..MaxLen :
       \E linked \in [1..n -> BOOLEAN] :
       \E prov \in [1..n -> Times \cup {0}] :
            /\ resource = "event" => \A i \in 1..n : ~linked[i]
            /\ src_store = SrcStore(resource, n, [i \in 1..n |-> TRUE], linked)
            /\ dst_store = DstStore(resource, prov, {})
    /\ src_objects = src_store
    /\ children = IF resource = "asset" THEN find_children(src_store, {NoneVal}) ELSE <<>>
    /\ batch = BatchRun(resource, IF resource = "asset" THEN children ELSE src_objects,
                        make_id_object_map(dst_store), <<>>, ProjectSrc, Now,
                        IF resource = "asset" THEN 0 ELSE NoneVal,
                        IF resource = "asset" THEN <<>> ELSE dst_store)
    /\ dst_objects = ApplyInPlace(dst_store, batch.update_objects)
    /\ src_filter = IF resource = "asset" THEN <<>> ELSE dst_objects
    /\ src_id_dst_map = make_id_object_map(dst_objects)
    /\ op = "create"
    /\ pc = "write"
    /\ IdleOther

\* events.py 130-132: retry(client.events.create, create_events) if the list
\* is not empty; assets.py 169-174: retry(...) whatever the list
WriteCreate ==
    /\ pc = "write" /\ op = "create"
    /\ IF resource = "event" /\ batch.create_objects = <<>>
       THEN /\ op' = "update"
            /\ UNCHANGED <<pc, retryVars>>
       ELSE /\ retry_objects' = SourceIdsOf(batch.create_objects)
            /\ attempt' = 0 /\ ret' = <<>> /\ calls' = <<>>
            /\ pc' = "start"
            /\ UNCHANGED op
    /\ UNCHANGED <<batchVars, deleteVars, resource, src_object, dst_object, src_dst_ids_assets, built>>
    /\ UNCHANGED <<replicateVars, hierarchyVars>>
    /\ UNCHANGED otherVars

\* events.py 132-133, assets.py 169: retry has returned what was created
WriteCreated ==
    /\ pc = "returned" /\ op = "create"
    /\ store_calls' = Append(store_calls, [call |-> "create", arg |-> batch.create_objects,
                                           outcome |-> RetryOutcome, result |-> ret, run |-> runs])
    /\ op' = "update"
    /\ pc' = "write"
    /\ UNCHANGED <<batchVars, deleteVars, resource, src_object, dst_object, src_dst_ids_assets, built>>
    /\ UNCHANGED <<retryVars, hierarchyVars>>
    /\ UNCHANGED <<opts, src_store, dst_store, jobs, raised, worker_error, runs>>
    /\ UNCHANGED otherVars

\* events.py 135-137: retry(client.events.update, update_events) if the list
\* is not empty, else copy_events is done; assets.py 177: retry(...) whatever
\* the list
WriteUpdate ==
    /\ pc = "write" /\ op = "update"
    /\ IF resource = "event" /\ batch.update_objects = <<>>
       THEN /\ pc' = "delete"
            /\ UNCHANGED retryVars
       ELSE /\ retry_objects' = SourceIdsOf(batch.update_objects)
            /\ attempt' = 0 /\ ret' = <<>> /\ calls' = <<>>
            /\ pc' = "start"
    /\ UNCHANGED <<batchVars, deleteVars, buildVars, replicateVars, hierarchyVars>>
    /\ UNCHANGED otherVars

\* events.py 137-146: copy_events is done; assets.py 177-192: the mapping
\* of this depth and the children of the next
WriteUpdated ==
    /\ pc = "returned" /\ op = "update"
    /\ store_calls' = Append(store_calls, [call |-> "update", arg |-> batch.update_objects,
                                           outcome |-> RetryOutcome, result |-> ret, run |-> runs])
    /\ IF resource = "asset"
       THEN LET created == Returned(batch.create_objects, store_calls[Len(store_calls)].result)
                updated == Returned(batch.update_objects, ret)
                next_children == find_children(src_objects, {children[j].id : j \in 1..Len(children)})
            IN  /\ src_dst_ids' = existing_mapping(created \o updated \o batch.unchanged_objects,
                                                   src_dst_ids)
                /\ depth' = depth + 1
                /\ children' = next_children
                /\ pc' = IF next_children = <<>> THEN "delete" ELSE "hierarchy"
       ELSE /\ pc' = "delete"
            /\ UNCHANGED hierarchyVars
    /\ UNCHANGED <<batchVars, deleteVars, buildVars, retryVars>>
    /\ UNCHANGED <<opts, src_store, dst_store, jobs, raised, worker_error, runs>>
    /\ UNCHANGED otherVars

NextWrite ==
    \/ WriteCreate
    \/ RetryEnter
    \/ CallReturns
    \/ CallTimesOut
    \/ CallRaises
    \/ WriteCreated
    \/ WriteUpdate
    \/ WriteUpdated

SpecWrite == InitWrite /\ [][NextWrite]_vars

-----------------------------------------------------------------------------
(* Properties of the writes of one pass (SpecWrite) *)

\* Every one of the three calls of the current retry ended in a read timeout
Exhausted == Len(calls) = Tries /\ \A j \in 1..Tries : calls[j].outcome \in Caught

RetryExhaustedReturnsEmpty == Exhausted => (pc # "raised" /\ pc # "loop" /\ ret = <<>>)

\* The caller goes on after an exhausted retry: after the create to the
\* update, after the update to the end of the pass.
CallerContinues ==
    (Exhausted /\ pc = "returned") =>
        /\ Len(store_calls') = Len(store_calls) + 1
        /\ store_calls'[Len(store_calls')].call = op
        /\ store_calls'[Len(store_calls')].outcome = "exhausted"
        /\ store_calls'[Len(store_calls')].result = <<>>
        /\ op = "create" => (pc' = "write" /\ op' = "update")
        /\ op = "update" => pc' \in {"delete", "hierarchy"}

-----------------------------------------------------------------------------
(* SpecHarness: replicate of events, files and sequences through
   replication.thread with num_threads worker threads, one action per step
   of a worker between two points where another thread can run. *)

Worker(at, chunk) == [pc |-> at, chunk |-> chunk]

NoChunk == [first |-> 0, last |-> 0]

InitHarness ==
    /\ IdleLocals
    /\ resource \in {"event", "file", "sequence"}
    /\ src_dst_ids_assets = <<>>
    /\ \E batch_size \in 1..MaxLen : opts = [DefaultOpts EXCEPT !.batch_size = batch_size]
    /\ \E n \in 0..(MaxLen + 1) :
            src_store = SrcStore(resource, n, [i \in 1..n |-> TRUE], [i \in 1..n |-> FALSE])
    /\ \E prov \in [1..1 -> Times \cup {0}] : dst_store = DstStore(resource, prov, {})
    /\ \E num_threads \in 1..MaxThreads :
            workers = [w \in 1..num_threads |-> Worker("new", NoChunk)]
    /\ IdleChunk /\ IdlePool /\ IdleDatapoint

\* events.py 226-238 and replication.py 334-371: the chunks are queued and
\* every worker thread is started
HarnessStart ==
    /\ pc = "copy"
    /\ Len(src_objects) > opts.batch_size
    /\ jobs' = Chunks(Len(src_objects), opts.batch_size)
    /\ workers' = [w \in 1..Len(workers) |-> Worker("called", NoChunk)]
    /\ pc' = "join"
    /\ UNCHANGED <<chunkVars, poolVars, datapointVars>>
    /\ UNCHANGED <<batchVars, deleteVars, buildVars, retryVars, hierarchyVars>>
    /\ UNCHANGED <<opts, src_store, dst_store, store_calls, raised, worker_error, runs>>

\* The thread calls copy (replication.py 353-365; nine arguments, one more
\* than copy_events takes) and copy tests the queue: events.py 101-106
WorkerEnter ==
    /\ pc = "join"
    /\ \E w \in 1..Len(workers) :
        /\ workers[w].pc = "called"
        /\ workers' = [workers EXCEPT ![w].pc =
                            IF WorkerRaisesTypeError THEN "dead"
                            ELSE IF jobs # <<>> THEN "get" ELSE "exit"]
    /\ UNCHANGED <<pc, batchVars, deleteVars, buildVars, retryVars, replicateVars, hierarchyVars, chunkVars, poolVars, datapointVars>>

\* events.py 110: jobs.get() returns the chunk at the head of the queue; it
\* blocks while the queue is empty
WorkerGet ==
    /\ pc = "join"
    /\ jobs # <<>>
    /\ \E w \in 1..Len(workers) :
        /\ workers[w].pc = "get"
        /\ workers' = [workers EXCEPT ![w] = Worker("work", Head(jobs))]
    /\ jobs' = Tail(jobs)
    /\ UNCHANGED <<pc, batchVars, deleteVars, buildVars, retryVars, hierarchyVars, chunkVars, poolVars, datapointVars>>
    /\ UNCHANGED <<opts, src_store, dst_store, store_calls, raised, worker_error, runs>>

\* events.py 111-146: the chunk is matched and written, the job is marked
\* done, and the queue is tested again.  An exception ends the thread.
WorkerWork ==
    /\ pc = "join"
    /\ \E w \in 1..Len(workers) :
        /\ workers[w].pc = "work"
        /\ LET chunk == SubSeq(src_objects, workers[w].chunk.first + 1, workers[w].chunk.last)
               trace == ChunkTrace(chunk)
           IN  \E create_outcomes \in [1..Len(CreateCalls(resource, trace.create_objects)) -> WriteOutcomes] :
               \E update_outcomes \in [1..Len(UpdateCalls(trace.update_objects)) -> WriteOutcomes] :
                   LET result == ChunkResult(trace, create_outcomes, update_outcomes)
                   IN  /\ batch' = trace
                       /\ dst_objects' = ApplyInPlace(dst_objects, trace.update_objects)
                       /\ src_filter' = ApplyInPlace(src_filter, trace.update_objects)
                       /\ src_id_dst_map' = ApplyInPlaceMap(src_id_dst_map, trace.update_objects)
                       /\ dst_store' = result.store
                       /\ store_calls' = result.log
                       /\ workers' = [workers EXCEPT ![w].pc =
                                        IF result.error # "" THEN "dead"
                                        ELSE IF jobs # <<>> THEN "get" ELSE "exit"]
    /\ UNCHANGED <<pc, src_objects, deleteVars, buildVars, retryVars, hierarchyVars, chunkVars, poolVars, datapointVars>>
    /\ UNCHANGED <<opts, src_store, jobs, raised, worker_error, runs>>

\* replication.py 373-375: every thread is joined; thread returns
HarnessJoin ==
    /\ pc = "join"
    /\ \A w \in 1..Len(workers) : workers[w].pc \in {"exit", "dead"}
    /\ pc' = "delete"
    /\ UNCHANGED <<batchVars, deleteVars, buildVars, retryVars, replicateVars, hierarchyVars, otherVars>>

NextHarness ==
    \/ ReplicateFetch
    \/ CopyObjects
    \/ HarnessStart
    \/ WorkerEnter
    \/ WorkerGet
    \/ WorkerWork
    \/ HarnessJoin

SpecHarness == InitHarness /\ [][NextHarness]_vars

-----------------------------------------------------------------------------
(* Properties of the harness (SpecHarness) *)

\* Worker w is inside jobs.get() and the queue is empty: nothing is ever put
\* on the queue again, so the worker stays there and thread never returns.
WaitsOnEmptyQueue(w) == workers[w].pc = "get" /\ jobs = <<>>

\* C13: whatever num_threads, batch_size and the interleaving, when every
\* store call returns no worker ever waits on an empty queue (each leaves
\* its loop once the queue is empty, and thread returns).
C13_HarnessTermination ==
    AllWritesOk => \A w \in 1..Len(workers) : ~WaitsOnEmptyQueue(w)

\* The part of C13 the code keeps: with one worker thread
SingleWorkerNeverWaits ==
    Len(workers) = 1 => \A w \in 1..Len(workers) : ~WaitsOnEmptyQueue(w)

\* thread has returned: the start and join loops of replication.py 368-374
\* are behind it
ThreadReturned == pc = "delete" /\ \A w \in 1..Len(workers) : workers[w].pc # "new"

\* No call on the destination store raised (a call that timed out three
\* times returned [] from retry and did not raise)
NoStoreCallRaised ==
    \A j \in 1..Len(store_calls) : store_calls[j].outcome \in {"ok", "exhausted"}

\* Every chunk was taken off the queue and the worker that took it finished
\* it: a worker reaches "exit" only after the pipeline of each chunk it
\* dequeued has run to its end, and a chunk is dequeued by one worker.
EveryChunkCompleted ==
    /\ jobs = <<>>
    /\ \A w \in 1..Len(workers) : workers[w].pc = "exit"

\* C25: thread never returns while a worker is still in a chunk, and when it
\* has returned and no store call raised, every enqueued chunk was dequeued
\* and its matcher and write pipeline ran to completion.
C25_JoinBeforeCompletion ==
    /\ ThreadReturned => \A w \in 1..Len(workers) : workers[w].pc \in {"exit", "dead"}
    /\ (ThreadReturned /\ NoStoreCallRaised) => EveryChunkCompleted

\* The part of C25 the join loop gives: after the return no worker is running
JoinWaitsForWorkers ==
    ThreadReturned => \A w \in 1..Len(workers) : workers[w].pc \in {"exit", "dead"}

\* The part of C25 the code keeps for the kinds whose copy function takes the
\* nine arguments: with every write returned, the queue was drained
DrainedWhenCopyIsCallable ==
    (ThreadReturned /\ AllWritesOk /\ ~WorkerRaisesTypeError /\ resource # "sequence")
        => EveryChunkCompleted

-----------------------------------------------------------------------------
(* datapoints.py: _get_chunk *)

Min(a, b) == IF a <= b THEN a ELSE b

\* lst[start:end] of Python, for indices that are not negative
Slice(list, lo, hi) == SubSeq(list, Min(lo, Len(list)) + 1, Min(hi, Len(list)))

\* Mutant of _get_chunk: the offset by the excess elements of the earlier
\* chunks (line 37) is missing.
_get_chunk_no_offset(list, n_chunks, chunk_number) ==
    LET chunk_size == Len(list) \div n_chunks
        num_excess_elements == Len(list) % n_chunks
        start_index == chunk_number * chunk_size
        end_index == start_index + chunk_size + (IF chunk_number < num_excess_elements THEN 1 ELSE 0)
    IN  Slice(list, start_index, end_index)

\* datapoints.py 33-43
_get_chunk(list, n_chunks, chunk_number) ==
    LET chunk_size == Len(list) \div n_chunks
        num_excess_elements == Len(list) % n_chunks
        start_index == chunk_number * chunk_size + Min(chunk_number, num_excess_elements)
        end_index == start_index + chunk_size + (IF chunk_number < num_excess_elements THEN 1 ELSE 0)
    IN  Slice(list, start_index, end_index)

(* SpecChunk: _get_chunk called for chunk_number = 0 .. num_chunks - 1, the
   way datapoints.replicate calls it (lines 337-353). *)

InitChunk ==
    /\ IdleBatch /\ IdleDelete /\ IdleBuild /\ IdleRetry /\ IdleReplicate /\ IdleHierarchy
    /\ IdleHarness /\ IdlePool /\ IdleDatapoint
    /\ pc = "start"
    /\ lst \in SeqsUpTo(ExternalIds, MaxList)
    /\ num_chunks \in 1..MaxList
    /\ chunks = <<>>

GetChunk ==
    /\ pc = "start"
    /\ chunks' = Append(chunks, _get_chunk(lst, num_chunks, Len(chunks)))
    /\ pc' = IF Len(chunks) + 1 = num_chunks THEN "done" ELSE "start"
    /\ UNCHANGED <<lst, num_chunks>>
    /\ UNCHANGED <<batchVars, deleteVars, buildVars, retryVars, replicateVars, hierarchyVars, harnessVars, poolVars, datapointVars>>

NextChunk == GetChunk

SpecChunk == InitChunk /\ [][NextChunk]_vars

-----------------------------------------------------------------------------
(* Properties of _get_chunk (SpecChunk) *)

Concat(seqs) ==
    LET c[i \in 0..Len(seqs)] == IF i = 0 THEN <<>> ELSE c[i - 1] \o seqs[i]
    IN  c[Len(seqs)]

\* C14: for a list of length N and 1 <= num_chunks <= N, the chunks
\* 0 .. num_chunks - 1 concatenated are the list itself, and any two chunks
\* differ in size by at most 1.
C14_ChunkPartition ==
    (pc = "done" /\ num_chunks <= Len(lst)) =>
        /\ Len(chunks) = num_chunks
        /\ Concat(chunks) = lst
        /\ \A i, j \in 1..Len(chunks) : Len(chunks[i]) - Len(chunks[j]) <= 1

\* C14 witness: a list of 3 elements, not all equal, cut in 2 chunks of
\* sizes 2 and 1.
C14_Witness ==
    /\ pc = "done"
    /\ Len(lst) = 3 /\ lst[1] # lst[2] /\ num_chunks = 2
    /\ chunks = <<SubSeq(lst, 1, 2), SubSeq(lst, 3, 3)>>

-----------------------------------------------------------------------------
(* SpecUnlink: unlink_subtree_parents over a source hierarchy, the subtree
   roots named by id, by external id, or both. *)

UserMeta == [source |-> "user"]

InitUnlink ==
    /\ IdleDelete /\ IdleBuild /\ IdleRetry /\ IdleHierarchy /\ IdleOther
    /\ dst_objects = <<>> /\ src_id_dst_map = <<>> /\ src_filter = <<>> /\ batch = EmptyBatch
    /\ dst_store = <<>> /\ jobs = <<>> /\ store_calls = <<>> /\ raised = "" /\ worker_error = ""
    /\ runs = 0
    /\ pc = "start"
    /\ \E ids \in SUBSET (1..MaxAssets) :
       \E external_ids \in SUBSET (1..MaxAssets) :
            opts = [DefaultOpts EXCEPT !.subtree_ids = SetToSeq(ids),
                                       !.subtree_external_ids = SetToSeq(external_ids)]
    /\ \E n \in 0..MaxAssets :
       \E parent \in [1..n -> (1..n) \cup {NoneVal}] :
       \E named \in [1..n -> BOOLEAN] :
       \E tagged \in [1..n -> BOOLEAN] :
            /\ IsForest(parent, n)
            /\ \A i \in 3..n : named[i] /\ ~tagged[i]
            /\ src_store = [i \in 1..n |->
                    [Obj("asset", i, IF named[i] THEN i ELSE NoneVal, SeqMax(Times), parent[i],
                         IF tagged[i] THEN UserMeta ELSE EmptyMeta)
                     EXCEPT !.parent_external_id =
                        IF parent[i] # NoneVal /\ named[parent[i]] THEN parent[i] ELSE NoneVal]]
    /\ src_objects = src_store

\* assets.py 197-221: the assets of the list are rewritten in place
UnlinkSubtreeParents ==
    /\ pc = "start"
    /\ src_objects' = unlink_subtree_parents(src_objects, opts.subtree_ids, opts.subtree_external_ids)
    /\ pc' = "done"
    /\ UNCHANGED <<dst_objects, src_id_dst_map, src_filter, batch>>
    /\ UNCHANGED <<deleteVars, buildVars, retryVars, replicateVars, hierarchyVars, otherVars>>

NextUnlink == UnlinkSubtreeParents

SpecUnlink == InitUnlink /\ [][NextUnlink]_vars

-----------------------------------------------------------------------------
(* Properties of unlink_subtree_parents (SpecUnlink) *)

\* metadata.get(key)
MetaGet(md, key) == IF key \in DOMAIN md THEN md[key] ELSE NoneVal

Rerooted(before, after) ==
    /\ after.parent_id = NoneVal
    /\ after.parent_external_id = NoneVal
    /\ MetaGet(after.metadata, "_replicatedOriginalParentId") = before.parent_id
    /\ MetaGet(after.metadata, "_replicatedOriginalParentExternalId") = before.parent_external_id

Untouched(before, after) ==
    /\ after.parent_id = before.parent_id
    /\ after.parent_external_id = before.parent_external_id
    /\ after.metadata = before.metadata

\* C15: after unlink_subtree_parents every asset named by subtree_ids or by
\* subtree_external_ids has parent_id None and parent_external_id None, and
\* its metadata gives its original parent id and parent external id under
\* _replicatedOriginalParentId and _replicatedOriginalParentExternalId;
\* every other asset keeps its parent_id, parent_external_id and metadata.
C15_SubtreeReroot ==
    pc = "done" =>
        /\ Len(src_objects) = Len(src_store)
        /\ \A j \in 1..Len(src_store) :
            IF IsSubtreeRoot(src_store[j], opts.subtree_ids, opts.subtree_external_ids)
            THEN Rerooted(src_store[j], src_objects[j])
            ELSE Untouched(src_store[j], src_objects[j])

\* C15 witness: an asset with a parent was rerooted because of its external
\* id alone, its metadata now gives both ids of the parent, and another
\* asset with a parent was left as it was.
C15_Witness ==
    /\ pc = "done"
    /\ \E j, h \in 1..Len(src_store) :
        /\ src_store[j].id \notin SeqToSet(opts.subtree_ids)
        /\ src_store[j].external_id \in SeqToSet(opts.subtree_external_ids)
        /\ src_store[j].parent_id # NoneVal /\ src_store[j].parent_external_id # NoneVal
        /\ Rerooted(src_store[j], src_objects[j])
        /\ ~IsSubtreeRoot(src_store[h], opts.subtree_ids, opts.subtree_external_ids)
        /\ src_store[h].parent_id # NoneVal
        /\ Untouched(src_store[h], src_objects[h])


-----------------------------------------------------------------------------
(* SpecRoundTrip: a source object is replicated, its replica is listed among
   destination objects that were never replicated, and the listing is
   resolved with make_id_object_map. *)

\* metadata a source object can carry: none, the user's own, or the
\* replication keys of an earlier replication into the source project
SourceMetas == {EmptyMeta, UserMeta} \cup {ReplicatedMeta(rid, SeqMax(Times)) : rid \in 1..(MaxLen + 1)}

InitRoundTrip ==
    /\ IdleDelete /\ IdleRetry /\ IdleReplicate /\ IdleHierarchy /\ IdleOther
    /\ src_objects = <<>> /\ src_filter = <<>> /\ batch = EmptyBatch
    /\ src_id_dst_map = <<>> /\ dst_object = <<>> /\ src_dst_ids_assets = <<>> /\ built = <<>>
    /\ op = "create"
    /\ pc = "start"
    /\ resource \in {"event", "file", "time_series", "sequence", "asset"}
    /\ \E i \in 1..(MaxLen + 1) :
       \E ext \in ExternalIds \cup {NoneVal} :
       \E md \in SourceMetas :
            src_object = Obj(resource, i, ext, SeqMax(Times), NoRef(resource), md)
    /\ \E n \in 0..MaxLen :
       \E md \in [1..n -> {EmptyMeta, UserMeta}] :
            dst_objects = [j \in 1..n |->
                Obj(resource, 20 + j, NoneVal, Now, NoRef(resource), md[j])]

\* the destination store keeps the new object with the metadata
\* new_metadata built for it, at some place of its listing
StoreReplica ==
    /\ pc = "start"
    /\ \E at \in 0..Len(dst_objects) :
        LET d == Obj(resource, 10 + src_object.id, src_object.external_id, Now, NoRef(resource),
                     new_metadata(src_object, ProjectSrc, Now))
        IN  /\ dst_object' = d
            /\ dst_objects' = SubSeq(dst_objects, 1, at) \o <<d>>
                                \o SubSeq(dst_objects, at + 1, Len(dst_objects))
    /\ pc' = "listed"
    /\ UNCHANGED <<src_objects, src_id_dst_map, src_filter, batch>>
    /\ UNCHANGED <<resource, op, src_object, src_dst_ids_assets, built>>
    /\ UNCHANGED <<deleteVars, retryVars, replicateVars, hierarchyVars, otherVars>>

MakeIdObjectMap ==
    /\ pc = "listed"
    /\ src_id_dst_map' = make_id_object_map(dst_objects)
    /\ pc' = "done"
    /\ UNCHANGED <<src_objects, dst_objects, src_filter, batch>>
    /\ UNCHANGED <<deleteVars, buildVars, retryVars, replicateVars, hierarchyVars, otherVars>>

NextRoundTrip == StoreReplica \/ MakeIdObjectMap

SpecRoundTrip == InitRoundTrip /\ [][NextRoundTrip]_vars

-----------------------------------------------------------------------------
(* Properties of the provenance round trip (SpecRoundTrip) *)

\* C16: for a source object s and the destination object d whose metadata is
\* new_metadata(s, project, runtime), make_id_object_map of a listing that
\* holds d has exactly one entry, and it maps s.id to d; the destination
\* objects without _replicatedInternalId are not in the map.
C16_ProvenanceRoundTrip ==
    pc = "done" =>
        /\ DOMAIN src_id_dst_map = {src_object.id}
        /\ src_id_dst_map[src_object.id] = dst_object
        /\ \A j \in 1..Len(dst_objects) :
                "_replicatedInternalId" \notin DOMAIN dst_objects[j].metadata
                    => \A k \in DOMAIN src_id_dst_map : src_id_dst_map[k] # dst_objects[j]

\* The source object is itself a replica of object 1 of another project, the
\* listing holds its replica between two objects that were never
\* replicated, and the map has the one entry 2 -> replica.
C16_Witness ==
    /\ pc = "done"
    /\ src_object.id = 2
    /\ src_object.metadata = ReplicatedMeta(1, SeqMax(Times))
    /\ Len(dst_objects) = 3 /\ dst_objects[2] = dst_object
    /\ dst_objects[1].metadata = UserMeta /\ dst_objects[3].metadata = EmptyMeta
    /\ DOMAIN src_id_dst_map = {2}


-----------------------------------------------------------------------------
(* SpecPool: datapoints.replicate and batch_replicate.  The time series of
   both projects are listed, the shared external ids are cut into jobs, and
   the jobs run in a process pool (num_threads > 1) or in the caller. *)

\* ceil(a / b) of Python for a >= 0 and b > 0
Ceil(a, b) == (a + b - 1) \div b

TimeSeriesOf(ext) == [i \in 1..Len(ext) |-> Obj("time_series", i, ext[i], SeqMax(Times), NoneVal, EmptyMeta)]

ExternalIdsOf(objs) == [i \in 1..Len(objs) |-> objs[i].external_id]

\* datapoints.py 313: compiled_re.search(ts.external_id) raises TypeError
\* on an external id that is None
SearchRaises(o, store) ==
    /\ o.external_ids = NoneList /\ o.exclude_pattern # NoPattern
    /\ \E i \in 1..Len(store) : store[i].external_id = NoneVal

\* datapoints.py 300-323: the source external ids replicate starts from
src_ext_id_list(o, store) ==
    IF o.external_ids # NoneList THEN ExternalIdsOf(retrieve_multiple(store, o.external_ids))
    ELSE IF o.exclude_pattern # NoPattern
    THEN SelectSeq(ExternalIdsOf(store), LAMBDA e : e \notin o.exclude_pattern)
    ELSE ExternalIdsOf(store)

\* datapoints.py 327-328
SharedExternalIds(src_list, dst_list) ==
    LET dst_ext_id_list == {dst_list[i] : i \in 1..Len(dst_list)}
    IN  SelectSeq(src_list, LAMBDA ext_id : ext_id \in dst_ext_id_list /\ Truthy(ext_id))

\* datapoints.py 337-353 with num_batches jobs
ArgList(shared, num_batches) == [j \in 1..num_batches |-> _get_chunk(shared, num_batches, j - 1)]

Truthy_list(ids) == ids # NoneList /\ ids # <<>>

InitPool ==
    /\ IdleBatch /\ IdleDelete /\ IdleBuild /\ IdleRetry /\ IdleHierarchy
    /\ IdleHarness /\ IdleChunk /\ IdlePool /\ IdleDatapoint
    /\ jobs = <<>> /\ store_calls = <<>> /\ raised = "" /\ worker_error = "" /\ runs = 0
    /\ pc = "start"
    /\ opts \in [batch_size : {NoneVal} \cup (1..MaxList), num_threads : 1..MaxThreads,
                 external_ids : {NoneList, <<2, 1>>}, exclude_pattern : {NoPattern, {1}}]
    /\ \E src \in SUBSET (1..MaxList) :
       \E unnamed \in BOOLEAN :
            src_store = TimeSeriesOf(SetToSeq(src) \o (IF unnamed THEN <<NoneVal>> ELSE <<>>))
    /\ \E dst \in SUBSET (1..MaxList) :
       \E unnamed \in BOOLEAN :
            dst_store = TimeSeriesOf((IF unnamed THEN <<NoneVal>> ELSE <<>>) \o SetToSeq(dst))

\* datapoints.py 297-353: everything before the jobs run
ReplicateSlice ==
    /\ pc = "start"
    /\ LET ext_ids == src_ext_id_list(opts, src_store)
           ts_dst == IF opts.external_ids # NoneList
                     THEN retrieve_multiple(dst_store, opts.external_ids) ELSE dst_store
           shared == SharedExternalIds(ext_ids, ExternalIdsOf(ts_dst))
           batch_size == IF opts.batch_size = NoneVal
                         THEN Ceil(Len(shared), opts.num_threads) ELSE opts.batch_size
           num_batches == Ceil(Len(shared), batch_size)
       IN  IF Truthy_list(opts.external_ids) /\ opts.exclude_pattern # NoPattern
           THEN raised' = "ValueError" /\ pc' = "raised"
                /\ UNCHANGED <<shared_external_ids, arg_list, progress>>
           ELSE IF SearchRaises(opts, src_store)
           THEN raised' = "TypeError" /\ pc' = "raised"
                /\ UNCHANGED <<shared_external_ids, arg_list, progress>>
           ELSE IF batch_size = 0
           THEN raised' = "ZeroDivisionError" /\ pc' = "raised"
                /\ shared_external_ids' = shared
                /\ UNCHANGED <<arg_list, progress>>
           ELSE /\ shared_external_ids' = shared
                /\ arg_list' = ArgList(shared, num_batches)
                /\ progress' = [j \in 1..num_batches |-> 0]
                /\ IF opts.num_threads > 1 THEN pc' = "pool" /\ UNCHANGED raised
                   ELSE IF num_batches = 0 THEN pc' = "raised" /\ raised' = "IndexError"
                   ELSE pc' = "single" /\ UNCHANGED raised
    /\ UNCHANGED <<opts, src_store, dst_store, jobs, store_calls, worker_error, runs, handed>>
    /\ UNCHANGED <<batchVars, deleteVars, buildVars, retryVars, hierarchyVars>>
    /\ UNCHANGED <<harnessVars, chunkVars, datapointVars>>

\* datapoints.py 224-251: one turn of the loop of batch_replicate for the
\* job of arg_list[j]
BatchReplicateStep(j) ==
    /\ progress[j] < Len(arg_list[j])
    /\ handed' = Append(handed, [job_id |-> j - 1, ts_external_id |-> arg_list[j][progress[j] + 1]])
    /\ progress' = [progress EXCEPT ![j] = @ + 1]
    /\ UNCHANGED <<pc, shared_external_ids, arg_list>>
    /\ UNCHANGED <<batchVars, deleteVars, buildVars, retryVars, replicateVars, hierarchyVars>>
    /\ UNCHANGED <<harnessVars, chunkVars, datapointVars>>

Running(j) == 0 < progress[j] /\ progress[j] < Len(arg_list[j])

\* datapoints.py 355-357: pool.starmap; at most num_threads jobs run at a time
PoolStep ==
    /\ pc = "pool"
    /\ \E j \in 1..Len(arg_list) :
        /\ progress[j] = 0 => Cardinality({k \in 1..Len(arg_list) : Running(k)}) < opts.num_threads
        /\ BatchReplicateStep(j)

PoolJoin ==
    /\ pc = "pool"
    /\ \A j \in 1..Len(arg_list) : progress[j] = Len(arg_list[j])
    /\ pc' = "done"
    /\ UNCHANGED <<batchVars, deleteVars, buildVars, retryVars, replicateVars, hierarchyVars, otherVars>>

\* datapoints.py 358-359: batch_replicate(*arg_list[0])
SingleStep ==
    /\ pc = "single"
    /\ BatchReplicateStep(1)

SingleReturn ==
    /\ pc = "single"
    /\ progress[1] = Len(arg_list[1])
    /\ pc' = "done"
    /\ UNCHANGED <<batchVars, deleteVars, buildVars, retryVars, replicateVars, hierarchyVars, otherVars>>

NextPool == ReplicateSlice \/ PoolStep \/ PoolJoin \/ SingleStep \/ SingleReturn

SpecPool == InitPool /\ [][NextPool]_vars

-----------------------------------------------------------------------------
(* Properties of datapoints.replicate (SpecPool) *)

\* the non-empty external ids present in both listings
InBoth ==
    {e \in 1..MaxList : (\E i \in 1..Len(src_store) : src_store[i].external_id = e)
                         /\ (\E i \in 1..Len(dst_store) : dst_store[i].external_id = e)}

HandedOnce(e) == Cardinality({k \in 1..Len(handed) : handed[k].ts_external_id = e}) = 1

\* C17: for every num_threads >= 1 and every batch_size (unset or >= 1),
\* when replicate has returned with neither external_ids nor exclude_pattern
\* given, every non-empty external id present in both the source and the
\* destination listing was handed to replicate_datapoints exactly once.
C17_AllSharedCovered ==
    (pc = "done" /\ opts.external_ids = NoneList /\ opts.exclude_pattern = NoPattern) =>
        \A e \in InBoth : HandedOnce(e)

\* With num_threads > 1 the jobs cover the shared external ids.
PoolCoversShared ==
    (pc = "done" /\ opts.num_threads > 1) =>
        /\ \A e \in 1..MaxList :
                (\E i \in 1..Len(shared_external_ids) : shared_external_ids[i] = e) => HandedOnce(e)
        /\ Len(handed) = Len(shared_external_ids)

\* In the caller only the job of arg_list[0] runs.
SingleRunsFirstJobOnly ==
    (pc = "done" /\ opts.num_threads = 1) =>
        [k \in 1..Len(handed) |-> handed[k].ts_external_id] = arg_list[1]


-----------------------------------------------------------------------------
(* SpecDatapoints: replicate_datapoints for one time series.  A time series
   is the set of the timestamps of its datapoints.  The clock is scaled: the
   timestamps are 1 .. MaxTime and ApiFloor stands for 31536000000 (1971),
   so that datapoints on both sides of it occur. *)

ApiFloor == 2                     \* line 124: start = max(start, 31536000000)
DefaultPartition == 100000        \* partition_size: int = 100000
NoLambda == {NoneVal}             \* value_manipulation_lambda_fnc = None

Max(a, b) == IF a >= b THEN a ELSE b

\* datapoints.retrieve_latest(external_id=...): the timestamp, None when the
\* time series is empty
retrieve_latest(dps) == IF dps = {} THEN NoneVal ELSE SeqMax(dps)

\* datapoints.retrieve(external_id=..., start=lo, end=hi, limit=n): start is
\* inclusive, end exclusive, oldest first
retrieve(dps, lo, hi, n) ==
    LET found == SetToSeq({t \in dps : lo <= t /\ t < hi})
    IN  SubSeq(found, 1, Min(n, Len(found)))

\* Mutant of _get_time_range: the range starts at the destination's latest
\* datapoint itself.
_get_time_range_from_latest(src_datapoint, dst_datapoint) ==
    <<IF dst_datapoint = NoneVal THEN 0 ELSE dst_datapoint,
      IF src_datapoint = NoneVal THEN 0 ELSE src_datapoint + 1>>

\* datapoints.py 14-18
_get_time_range(src_datapoint, dst_datapoint) ==
    <<IF dst_datapoint = NoneVal THEN 0 ELSE dst_datapoint + 1,
      IF src_datapoint = NoneVal THEN 0 ELSE src_datapoint + 1>>

\* The arguments: start and end are epoch milliseconds when given
\* (timestamp_to_ms leaves an integer as it is); lambda_fails is the set of
\* the timestamps of the datapoints on whose value the lambda raises;
\* src_datapoint_transform and timerange_transform are not given.
DatapointOpts ==
    [limit : {NoneVal, 1, 3}, partition_size : {1, 2, DefaultPartition}, mock_run : BOOLEAN,
     start : {NoneVal, 1}, end : {NoneVal, MaxTime},
     lambda_fails : {NoLambda, {}, {MaxTime - 1}}]

InitDatapoints ==
    /\ IdleBatch /\ IdleDelete /\ IdleBuild /\ IdleRetry /\ IdleHierarchy
    /\ IdleHarness /\ IdleChunk /\ IdlePool
    /\ src_store = <<>> /\ dst_store = <<>> /\ jobs = <<>> /\ store_calls = <<>>
    /\ raised = "" /\ worker_error = "" /\ runs = 0
    /\ pc = "start"
    /\ opts \in DatapointOpts
    /\ src_datapoints \in SUBSET (1..MaxTime)
    /\ dst_datapoints \in SUBSET (1..MaxTime)
    /\ start = 0 /\ end = 0 /\ datapoints_count = 0 /\ inserted = <<>>
    /\ latest_dst_dp = NoneVal /\ latest_src_dp = NoneVal

DatapointsFrame ==
    /\ UNCHANGED <<batchVars, deleteVars, buildVars, retryVars, hierarchyVars>>
    /\ UNCHANGED <<opts, src_store, dst_store, jobs, store_calls, worker_error, runs>>
    /\ UNCHANGED <<harnessVars, chunkVars, poolVars, src_datapoints>>

\* datapoints.py 102-124: the latest datapoints of both sides and the range
LatestAndRange ==
    /\ pc = "start"
    /\ latest_dst_dp' = retrieve_latest(dst_datapoints)
    /\ latest_src_dp' = retrieve_latest(src_datapoints)
    /\ IF latest_src_dp' = NoneVal
       THEN pc' = "done" /\ UNCHANGED <<start, end>>
       ELSE LET range == _get_time_range(latest_src_dp', latest_dst_dp')
                _start == IF opts.start = NoneVal THEN range[1] ELSE opts.start
            IN  /\ start' = Max(_start, ApiFloor)
                /\ end' = IF opts.end = NoneVal THEN range[2] ELSE opts.end
                /\ pc' = "loop"
    /\ UNCHANGED <<dst_datapoints, datapoints_count, inserted, raised>>
    /\ DatapointsFrame

\* datapoints.py 105-107 and 167-169: a store call raises CogniteAPIError
\* and replicate_datapoints returns False
StoreCallFails ==
    /\ pc \in {"start", "loop"}
    /\ pc = "loop" => start < end
    /\ pc' = "failed"
    /\ UNCHANGED <<dst_datapoints, start, end, datapoints_count, inserted, latest_dst_dp, latest_src_dp, raised>>
    /\ DatapointsFrame

num_to_fetch ==
    IF opts.limit = NoneVal THEN opts.partition_size
    ELSE Min(opts.partition_size, opts.limit - datapoints_count)

\* datapoints.py 149-163: the lambda raised on a datapoint of the partition.
\* Line 156 has then appended the timestamp and line 157 no value: the
\* Datapoints of line 163 holds every timestamp and fewer values.
LambdaFailed(datapoints) ==
    /\ opts.lambda_fails # NoLambda
    /\ \E i \in 1..Len(datapoints) : datapoints[i] \in opts.lambda_fails

\* datapoints.py 128-138: the loop ends
LoopEnds ==
    /\ pc = "loop"
    /\ \/ ~(start < end)
       \/ num_to_fetch = 0
       \/ retrieve(src_datapoints, start, end, num_to_fetch) = <<>>
    /\ pc' = "done"
    /\ UNCHANGED <<dst_datapoints, start, end, datapoints_count, inserted, latest_dst_dp, latest_src_dp, raised>>
    /\ DatapointsFrame

\* datapoints.py 128-172: one partition is retrieved and inserted.  What the
\* client library does with a Datapoints of more timestamps than values is
\* not in the source: it is inserted or not, and the turn goes on or raises.
CopyPartition ==
    /\ pc = "loop"
    /\ start < end
    /\ num_to_fetch # 0
    /\ LET datapoints == retrieve(src_datapoints, start, end, num_to_fetch)
       IN  /\ datapoints # <<>>
           /\ \E is_inserted \in BOOLEAN :
              \E raises \in BOOLEAN :
                /\ ~LambdaFailed(datapoints) => (is_inserted = ~opts.mock_run /\ ~raises)
                /\ opts.mock_run => ~is_inserted
                /\ IF is_inserted
                   THEN /\ dst_datapoints' = dst_datapoints \cup {datapoints[i] : i \in 1..Len(datapoints)}
                        /\ inserted' = Append(inserted, datapoints)
                   ELSE UNCHANGED <<dst_datapoints, inserted>>
                /\ IF raises
                   THEN /\ pc' = "raised" /\ raised' = "Exception"
                        /\ UNCHANGED <<datapoints_count, start>>
                   ELSE /\ datapoints_count' = datapoints_count + Len(datapoints)
                        /\ start' = datapoints[Len(datapoints)] + 1
                        /\ UNCHANGED <<pc, raised>>
    /\ UNCHANGED <<end, latest_dst_dp, latest_src_dp>>
    /\ DatapointsFrame

NextDatapoints == LatestAndRange \/ StoreCallFails \/ LoopEnds \/ CopyPartition

SpecDatapoints == InitDatapoints /\ [][NextDatapoints]_vars

-----------------------------------------------------------------------------
(* Properties of replicate_datapoints (SpecDatapoints) *)

InsertedTimestamps == UNION {{inserted[b][i] : i \in 1..Len(inserted[b])} : b \in 1..Len(inserted)}

\* C18: when the destination held datapoints before the call and neither
\* start nor end is given (the transforms are absent), every datapoint
\* inserted into the destination has a timestamp greater than the
\* destination's latest timestamp before the call and not greater than the
\* source's latest timestamp.
C18_OnlyNewerDatapoints ==
    (latest_dst_dp # NoneVal /\ opts.start = NoneVal /\ opts.end = NoneVal) =>
        \A t \in InsertedTimestamps : latest_dst_dp < t /\ t <= latest_src_dp

\* The destination held the datapoint 2, the source holds 1 .. 4; the two
\* newer datapoints were inserted in two partitions and the call returned.
C18_Witness ==
    /\ pc = "done"
    /\ opts.start = NoneVal /\ opts.end = NoneVal
    /\ latest_dst_dp = 2 /\ latest_src_dp = MaxTime
    /\ src_datapoints = 1..MaxTime
    /\ inserted = <<<<3>>, <<4>>>>


-----------------------------------------------------------------------------
(* SpecFilter: filter_objects called on a list of objects, the way
   test_filter_objects calls it: filter_fn is None or a predicate on the
   object, given here by the ids it accepts. *)

NoFilter == {NoneVal}             \* filter_fn = None

\* the asset references an object of kind k can carry
RefsOf(k) ==
    IF k \in MultiAssetKinds THEN {NoneList, <<>>} \cup {SetToSeq(ids) : ids \in (SUBSET (1..MaxLen)) \ {{}}}
    ELSE IF k \in SingleAssetKinds THEN {NoneVal} \cup (1..MaxLen)
    ELSE {NoneVal}

CallFilterFn(fn, obj) == IF fn = NoFilter \/ obj.id \in fn THEN "keep" ELSE "skip"

InitFilter ==
    /\ IdleDelete /\ IdleRetry /\ IdleHierarchy /\ IdleOther
    /\ dst_objects = <<>> /\ src_id_dst_map = <<>> /\ src_filter = <<>> /\ batch = EmptyBatch
    /\ op = "create" /\ src_object = <<>> /\ dst_object = <<>> /\ built = <<>>
    /\ dst_store = <<>> /\ jobs = <<>> /\ store_calls = <<>> /\ raised = "" /\ worker_error = ""
    /\ runs = 0
    /\ pc = "start"
    /\ resource \in MultiAssetKinds \cup SingleAssetKinds \cup {"relationship"}
    /\ \E n \in 0..(MaxLen + 1) :
       \E ref \in [1..n -> RefsOf(resource)] :
            src_store = [i \in 1..n |-> Obj(resource, i, NoneVal, SeqMax(Times), ref[i], EmptyMeta)]
    /\ src_objects = src_store
    /\ \E replicated \in SUBSET (1..MaxLen) : src_dst_ids_assets = AssetMap(replicated)
    /\ \E fn \in {NoFilter} \cup SUBSET (1..(MaxLen + 1)) :
            opts \in [skip_unlinkable : BOOLEAN, skip_nonasset : BOOLEAN, filter_fn : {fn}]

\* replication.py 33-79
FilterObjects ==
    /\ pc = "start"
    /\ src_objects' = SelectSeq(src_objects, LAMBDA obj :
            FilterVerdict(resource, obj, src_dst_ids_assets, opts.skip_unlinkable, opts.skip_nonasset,
                          CallFilterFn(opts.filter_fn, obj)) = "keep")
    /\ pc' = "done"
    /\ UNCHANGED <<dst_objects, src_id_dst_map, src_filter, batch>>
    /\ UNCHANGED <<deleteVars, buildVars, retryVars, replicateVars, hierarchyVars, otherVars>>

NextFilter == FilterObjects

SpecFilter == InitFilter /\ [][NextFilter]_vars

-----------------------------------------------------------------------------
(* Properties of filter_objects (SpecFilter) *)

\* the asset attribute of the object is not None
HasAssetReference(obj) ==
    \/ "asset_ids" \in DOMAIN obj /\ obj.asset_ids # NoneList
    \/ "asset_id" \in DOMAIN obj /\ obj.asset_id # NoneVal

ReferencedAssetIds(obj) ==
    IF "asset_ids" \in DOMAIN obj THEN {obj.asset_ids[j] : j \in 1..Len(obj.asset_ids)}
    ELSE {obj.asset_id}

ShouldKeep(obj) ==
    /\ opts.filter_fn = NoFilter \/ obj.id \in opts.filter_fn
    /\ ~opts.skip_nonasset \/ HasAssetReference(obj)
    /\ \/ ~opts.skip_unlinkable
       \/ ~HasAssetReference(obj)
       \/ \E a \in ReferencedAssetIds(obj) : a \in DOMAIN src_dst_ids_assets

-----------------------------------------------------------------------------
(* SpecClear: clear_replication_metadata over a project holding events, time
   series and assets, replicated or not. *)

\* replication.py 378-389
remove_replication_metadata(objects) ==
    [i \in 1..Len(objects) |->
        [objects[i] EXCEPT !.metadata = [k \in DOMAIN @ \ ReservedKeys |-> @[k]]]]

ClearedKinds == <<"events", "time_series", "assets">>

KindOf(listing) ==
    IF listing = "events" THEN "event" ELSE IF listing = "assets" THEN "asset" ELSE listing

\* the metadata a stored object can carry: none, the user's own, the
\* replication keys, or both
StoredMetas ==
    {EmptyMeta, UserMeta, ReplicatedMeta(1, SeqMax(Times)),
     new_metadata([id |-> 1, metadata |-> UserMeta], ProjectSrc, SeqMax(Times))}

ListingsOf(k, most) ==
    UNION {{[i \in 1..n |-> Obj(k, 10 + i, NoneVal, Now, NoRef(k), md[i])] : md \in [1..n -> StoredMetas]} :
           n \in 0..most}

InitClear ==
    /\ IdleDelete /\ IdleBuild /\ IdleRetry /\ IdleHierarchy /\ IdleOther
    /\ src_objects = <<>> /\ src_id_dst_map = <<>> /\ src_filter = <<>> /\ batch = EmptyBatch
    /\ opts = <<>> /\ src_store = <<>> /\ jobs = <<>> /\ store_calls = <<>>
    /\ raised = "" /\ worker_error = "" /\ runs = 0
    /\ pc = "start"
    /\ dst_store \in [events : ListingsOf("event", MaxLen), time_series : ListingsOf("time_series", 1),
                      assets : ListingsOf("asset", 1)]
    /\ dst_objects = <<>>

ClearFrame ==
    /\ UNCHANGED <<src_objects, src_id_dst_map, src_filter, batch>>
    /\ UNCHANGED <<opts, src_store, jobs, worker_error, runs>>
    /\ UNCHANGED <<deleteVars, buildVars, retryVars, hierarchyVars, otherVars>>

\* replication.py 402-404: the three listings
ClearList ==
    /\ pc = "start"
    /\ dst_objects' = dst_store
    /\ pc' = "update"
    /\ UNCHANGED <<dst_store, store_calls, raised>>
    /\ ClearFrame

\* client.X.update(objects): each stored object of the same id is replaced
\* by the object given
StoreUpdate(stored, objects) ==
    [i \in 1..Len(stored) |->
        IF \E j \in 1..Len(objects) : objects[j].id = stored[i].id
        THEN objects[CHOOSE j \in 1..Len(objects) : objects[j].id = stored[i].id]
        ELSE stored[i]]

\* replication.py 406-408: the listings are written back as they were read
ClearUpdate ==
    /\ pc = "update"
    /\ LET listing == ClearedKinds[Len(store_calls) + 1]
       IN  \E outcome \in {"ok", "CogniteAPIError"} :
            /\ store_calls' = Append(store_calls,
                    [call |-> "update", kind |-> KindOf(listing), arg |-> dst_objects[listing],
                     outcome |-> outcome])
            /\ IF outcome = "ok"
               THEN /\ dst_store' = [dst_store EXCEPT ![listing] = StoreUpdate(@, dst_objects[listing])]
                    /\ pc' = IF Len(store_calls) + 1 = Len(ClearedKinds) THEN "done" ELSE "update"
                    /\ UNCHANGED raised
               ELSE /\ pc' = "raised" /\ raised' = outcome
                    /\ UNCHANGED dst_store
    /\ UNCHANGED dst_objects
    /\ ClearFrame

NextClear == ClearList \/ ClearUpdate

SpecClear == InitClear /\ [][NextClear]_vars

-----------------------------------------------------------------------------
(* Properties of clear_replication_metadata (SpecClear) *)

AllStored == dst_store.events \o dst_store.time_series \o dst_store.assets

CarriesReplicationKey(obj) == DOMAIN obj.metadata \cap ReservedKeys # {}

\* C20: after clear_replication_metadata has returned, no event, time series
\* or asset of the project carries any of _replicatedInternalId,
\* _replicatedSource and _replicatedTime.
C20_MetadataCleared ==
    pc = "done" => \A i \in 1..Len(AllStored) : ~CarriesReplicationKey(AllStored[i])

\* What the code does: the project is after the call what it was before,
\* and every update was given the objects as they were listed.
ClearChangesNothing ==
    /\ pc # "start" => dst_store = dst_objects
    /\ \A c \in 1..Len(store_calls) : store_calls[c].arg = dst_objects[ClearedKinds[c]]

\* remove_replication_metadata, had it been called on the listings, takes
\* the three keys away and leaves the other keys alone.
RemoveStripsListing ==
    \A listing \in {"events", "time_series", "assets"} :
        LET before == dst_store[listing]
            after == remove_replication_metadata(before)
        IN  \A i \in 1..Len(before) :
                /\ ~CarriesReplicationKey(after[i])
                /\ \A k \in DOMAIN before[i].metadata \ ReservedKeys :
                        k \in DOMAIN after[i].metadata /\ after[i].metadata[k] = before[i].metadata[k]


-----------------------------------------------------------------------------
(* SpecWalk: assets.replicate over any source listing of distinct assets,
   the parent links forming a forest, a cycle, or leaving the listing, into
   a destination that holds replicas of earlier runs, stale or up to date. *)

Outside == MaxAssets + 1          \* the id of an asset that is not in the listing

InitWalk ==
    /\ IdleLocals
    /\ resource = "asset"
    /\ src_dst_ids_assets = <<>>
    /\ \E max_depth \in {NoneVal, 0, 1} : opts = [DefaultOpts EXCEPT !.subtree_max_depth = max_depth]
    /\ \E n \in 0..MaxAssets :
       \E parent \in [1..n -> (1..n) \cup {NoneVal, Outside}] :
       \E prov \in [1..n -> {0} \cup Times] :
            /\ src_store = [i \in 1..n |-> Obj("asset", i, i, SeqMax(Times), parent[i], EmptyMeta)]
            /\ dst_store = DstStore("asset", prov, {})
    /\ IdleOther

SpecWalk == InitWalk /\ [][NextHierarchy]_vars

-----------------------------------------------------------------------------
(* Properties of the hierarchy walker over any listing (SpecWalk) *)

\* the source id a built or stored object was replicated from
SrcId(obj) == obj.metadata["_replicatedInternalId"]

\* The depth of the asset of the given id in the listing handed to
\* create_hierarchy: 0 for a root, one more than its parent's otherwise;
\* NoneVal when no root is reached through the parent links.
SourceDepth(id) ==
    LET n == Len(src_objects)
        AssetOf(a) == src_objects[CHOOSE i \in 1..n : src_objects[i].id = a]
        Listed(a) == \E i \in 1..n : src_objects[i].id = a
        up[h \in 0..n] ==
            IF h = 0 THEN id
            ELSE IF up[h - 1] = NoneVal \/ ~Listed(up[h - 1]) THEN Outside
            ELSE AssetOf(up[h - 1]).parent_id
        reaching == {h \in 1..n : up[h] = NoneVal}
    IN  IF reaching = {} THEN NoneVal ELSE (CHOOSE h \in reaching : \A g \in reaching : h <= g) - 1

WriteCalls == {j \in 1..Len(store_calls) : store_calls[j].call \in {"create", "update"}}

\* the destination asset the map gives for source id a is a replica of a
MapsToReplica(a) ==
    /\ a \in DOMAIN src_dst_ids
    /\ \E d \in 1..Len(dst_store) :
            /\ dst_store[d].id = src_dst_ids[a]
            /\ MetaTruthy(dst_store[d], "_replicatedInternalId") /\ SrcId(dst_store[d]) = a

\* When the pass of a depth is about to start, every write call so far was
\* for an asset of a lower depth, and what the calls that succeeded wrote,
\* with the assets the last pass found unchanged, is in the map.
MergedBeforeNext ==
    pc = "hierarchy" =>
        /\ \A j \in WriteCalls : \A k \in 1..Len(store_calls[j].arg) :
                LET a == SrcId(store_calls[j].arg[k])
                IN  /\ SourceDepth(a) # NoneVal /\ SourceDepth(a) < depth
                    /\ store_calls[j].outcome = "ok" => MapsToReplica(a)
        /\ \A k \in 1..Len(batch.unchanged_objects) : MapsToReplica(SrcId(batch.unchanged_objects[k]))

\* A pass sends create and update requests for assets of its own depth only.
SendsOwnDepthOnly ==
    \A j \in (Len(store_calls) + 1)..Len(store_calls') :
        store_calls'[j].call \in {"create", "update"} =>
            /\ pc = "hierarchy"
            /\ \A k \in 1..Len(store_calls'[j].arg) : SourceDepth(SrcId(store_calls'[j].arg[k])) = depth

\* C21: no create or update request for an asset of depth d+1 is built or
\* sent before every create and update call of depth d has returned and the
\* objects they returned, with the unchanged ones, are merged into the map
\* of source id to destination id.
C21_DepthSequencing == []MergedBeforeNext /\ [][SendsOwnDepthOnly]_vars

\* The pass of depth 2 is about to start: the root was updated and its
\* child created, in that order, and both are in the map.
C21_Witness ==
    /\ pc = "hierarchy" /\ depth = 2
    /\ Len(store_calls) = 2
    /\ store_calls[1].call = "update" /\ store_calls[1].outcome = "ok"
    /\ store_calls[2].call = "create" /\ store_calls[2].outcome = "ok"
    /\ Cardinality(DOMAIN src_dst_ids) = 2

\* the only failures so far are creates given up by retry
OnlyCreatesExhausted ==
    /\ \E j \in 1..Len(store_calls) : store_calls[j].call = "create" /\ store_calls[j].outcome = "exhausted"
    /\ \A j \in 1..Len(store_calls) :
            \/ store_calls[j].outcome = "ok"
            \/ store_calls[j].call = "create" /\ store_calls[j].outcome = "exhausted"

\* the create of the asset of source id a was given up
CreateFailed(a) ==
    \E j \in 1..Len(store_calls) :
        /\ store_calls[j].call = "create" /\ store_calls[j].outcome = "exhausted"
        /\ \E k \in 1..Len(store_calls[j].arg) : SrcId(store_calls[j].arg[k]) = a

\* C22: when the create of an asset of depth d fails (retry gives up and
\* returns nothing), create_hierarchy goes on with depth d+1 and the later
\* depths: nothing is raised, and each child of the failed asset that is
\* sent to the store is sent with parent_id None.
C22_WalkSurvivesFailedCreate ==
    OnlyCreatesExhausted =>
        /\ raised = ""
        /\ \A j \in WriteCalls : \A k \in 1..Len(store_calls[j].arg) :
                LET sent == store_calls[j].arg[k]
                IN  CreateFailed(SourceParentOf(sent)) => sent.parent_id = NoneVal

\* What the code does instead: the only exception such a walk ends in is the
\* KeyError of the pass of depth d+1, raised when it builds a child of the
\* asset that is not in the map.
FailedCreateRaisesKeyError ==
    (OnlyCreatesExhausted /\ raised # "") =>
        /\ raised = "KeyError"
        /\ \E i \in 1..Len(src_objects) : CreateFailed(src_objects[i].parent_id)


\* the source asset of id a has a counterpart in the destination
HasCounterpart(a) ==
    \E d \in 1..Len(dst_store) : MetaTruthy(dst_store[d], "_replicatedInternalId") /\ SrcId(dst_store[d]) = a

\* the ids of the source assets of the depths processed so far
Processed ==
    {src_objects[i].id : i \in {h \in 1..Len(src_objects) :
        SourceDepth(src_objects[h].id) # NoneVal /\ SourceDepth(src_objects[h].id) < depth}}

\* C23: after a depth has been processed, the map of source id to
\* destination id has an entry for every source asset of that depth that
\* has a destination counterpart, one that existed before the run (unchanged
\* or updated) or one created in this run, and the value of every entry is
\* the id of a destination asset whose _replicatedInternalId is the key.
C23_MapCoverage ==
    pc \in {"hierarchy", "delete", "done"} =>
        /\ \A a \in Processed : HasCounterpart(a) => a \in DOMAIN src_dst_ids
        /\ \A a \in DOMAIN src_dst_ids : MapsToReplica(a)

\* With every write succeeding the map covers the processed depths.
MapCoverageWhenWritesOk == AllWritesOk => C23_MapCoverage

\* What is missing from the map is an asset whose replica of an earlier run
\* was to be updated, the update given up by retry.
UncoveredIsFailedUpdate ==
    pc \in {"hierarchy", "delete", "done"} =>
        /\ \A a \in Processed :
                (HasCounterpart(a) /\ a \notin DOMAIN src_dst_ids) =>
                    \E j \in 1..Len(store_calls) :
                        /\ store_calls[j].call = "update" /\ store_calls[j].outcome = "exhausted"
                        /\ \E k \in 1..Len(store_calls[j].arg) : SrcId(store_calls[j].arg[k]) = a
        /\ \A a \in DOMAIN src_dst_ids : MapsToReplica(a)


\* the ids of the listed assets of depth 0..m
WithinDepth(m) ==
    {src_objects[i].id : i \in {h \in 1..Len(src_objects) :
        SourceDepth(src_objects[h].id) # NoneVal /\ SourceDepth(src_objects[h].id) <= m}}

\* C27: with subtree_max_depth = m >= 0 the walker processes the depths 0
\* through m: no create or update call carries an asset of a depth greater
\* than m, no pass starts at a depth greater than m, and the walk ends
\* normally at the bound with the map built so far: its keys are assets of
\* depth 0..m, all of them when every write returned.
C27_MaxDepthBound ==
    (opts.subtree_max_depth # NoneVal /\ pc # "start") =>
        /\ \A j \in WriteCalls : \A k \in 1..Len(store_calls[j].arg) :
                SrcId(store_calls[j].arg[k]) \in WithinDepth(opts.subtree_max_depth)
        /\ pc = "hierarchy" => depth <= opts.subtree_max_depth
        /\ depth <= opts.subtree_max_depth + 1
        /\ DOMAIN src_dst_ids \subseteq WithinDepth(opts.subtree_max_depth)
        /\ (pc = "delete" /\ AllWritesOk) =>
                /\ raised = ""
                /\ DOMAIN src_dst_ids = WithinDepth(opts.subtree_max_depth)

\* The bound 0 ended the walk after the roots: the root was created and is
\* the one key of the map, and the listing holds an asset of depth 1.
C27_Witness ==
    /\ opts.subtree_max_depth = 0 /\ pc = "delete" /\ raised = ""
    /\ depth = 1
    /\ \E i \in 1..Len(src_objects) : SourceDepth(src_objects[i].id) = 1
    /\ Len(store_calls) = 1 /\ store_calls[1].call = "create" /\ store_calls[1].outcome = "ok"
    /\ Cardinality(DOMAIN src_dst_ids) = 1

\* The walker runs in one thread and every call it makes returns or raises,
\* so a step that is possible is taken.
SpecWalkFair == InitWalk /\ [][NextHierarchy]_vars /\ WF_vars(NextHierarchy)

\* how many times the asset of source id a was sent in a create or update
SentCount(a) ==
    Cardinality({jk \in WriteCalls \X (1..Len(src_objects)) :
                    /\ jk[2] <= Len(store_calls[jk[1]].arg)
                    /\ SrcId(store_calls[jk[1]].arg[jk[2]]) = a})

\* The child set of a pass holds each asset once and only assets of the
\* depth of the pass, so an asset is in the child set of one depth at most;
\* no asset is sent twice, and none that no root is reached from is sent.
WalkOnce ==
    /\ depth <= Len(src_objects)
    /\ pc = "hierarchy" =>
            /\ children # <<>>
            /\ \A k \in 1..Len(children) : SourceDepth(children[k].id) = depth
            /\ \A k, l \in 1..Len(children) : children[k].id = children[l].id => k = l
    /\ \A i \in 1..Len(src_objects) :
            /\ SentCount(src_objects[i].id) <= 1
            /\ SourceDepth(src_objects[i].id) = NoneVal => SentCount(src_objects[i].id) = 0

\* From one pass to the next the depth grows by one
DepthGrows == (pc = "hierarchy" /\ pc' = "hierarchy") => depth' = depth + 1

\* create_hierarchy has returned or raised
WalkEnded == pc \notin {"start", "hierarchy"}

-----------------------------------------------------------------------------
(* make_objects_batch and source objects without an external id (SpecBatch) *)

\* The source objects that have no external_id and no entry in the map of
\* source id to destination object
UnnamedUnmapped ==
    {i \in 1..Len(src_objects) :
        src_objects[i].external_id = NoneVal /\ src_objects[i].id \notin DOMAIN src_id_dst_map}

InCreateList(i) ==
    \E k \in 1..Len(batch.create_objects) : SrcId(batch.create_objects[k]) = src_objects[i].id

FilterHasUnnamed == \E j \in 1..Len(src_filter) : src_filter[j].external_id = NoneVal

\* C29: a source object with no external_id and no entry in the map is put
\* in the create list, whatever the destination batch src_filter holds.
C29_UnnamedSourceCreated ==
    (pc = "done" /\ batch.raised = "") => \A i \in UnnamedUnmapped : InCreateList(i)

\* The part of C29 the code keeps: no object of src_filter lacks an
\* external_id
UnnamedCreatedWhenFilterNamed ==
    (pc = "done" /\ batch.raised = "" /\ ~FilterHasUnnamed) => \A i \in UnnamedUnmapped : InCreateList(i)

\* What the code does otherwise: the object is reported unchanged
UnnamedUnchangedWhenFilterUnnamed ==
    (pc = "done" /\ batch.raised = "" /\ FilterHasUnnamed) =>
        \A i \in UnnamedUnmapped :
            /\ ~InCreateList(i)
            /\ \E k \in 1..Len(batch.unchanged_objects) : batch.unchanged_objects[k] = src_objects[i]

-----------------------------------------------------------------------------
(* datapoints.replicate when no time series is shared (SpecPool) *)

\* The shared external ids of the two projects, from the arguments
SharedOfInputs ==
    SharedExternalIds(src_ext_id_list(opts, src_store),
                      ExternalIdsOf(IF opts.external_ids # NoneList
                                    THEN retrieve_multiple(dst_store, opts.external_ids)
                                    ELSE dst_store))

\* The arguments pass the checks that come before the shared list is made
ArgumentsAccepted ==
    /\ ~(Truthy_list(opts.external_ids) /\ opts.exclude_pattern # NoPattern)
    /\ ~SearchRaises(opts, src_store)

\* C30: when the two projects share no external id, replicate completes
\* without raising and hands no time series to a job (no datapoint is
\* retrieved or inserted), for every num_threads >= 1 and every batch_size.
C30_NoSharedCompletes ==
    (pc # "start" /\ ArgumentsAccepted /\ SharedOfInputs = <<>>) =>
        /\ raised = "" /\ pc # "raised"
        /\ handed = <<>>

\* What the code does when nothing is shared: it divides by zero when
\* batch_size is unset, indexes an empty list when there is one thread, and
\* completes with nothing handed out otherwise
NoSharedOutcome ==
    (pc # "start" /\ ArgumentsAccepted /\ SharedOfInputs = <<>>) =>
        /\ handed = <<>>
        /\ raised = (IF opts.batch_size = NoneVal THEN "ZeroDivisionError"
                     ELSE IF opts.num_threads = 1 THEN "IndexError"
                     ELSE "")

-----------------------------------------------------------------------------
(* SpecQueue: the loop of replication.thread that fills the work queue, for
   a source list of any length and any batch_size >= 1. *)

\* Mutant of EnqueuedChunks: every chunk is given the length batch_size.
EnqueuedChunksFullOnly(n, batch_size) ==
    LET put[i \in 0..(n + batch_size)] ==
            IF i < n THEN <<[first |-> i, last |-> i + batch_size]>> \o put[i + batch_size]
            ELSE <<>>
    IN  put[0]

\* replication.py 337-344: the chunks put on the queue from index i on are
\* put[i]; the loop starts at i = 0 and steps by batch_size
EnqueuedChunks(n, batch_size) ==
    LET put[i \in 0..(n + batch_size)] ==
            IF i < n
            THEN LET remaining == n - i
                 IN  <<[first |-> i,
                        last |-> IF remaining >= batch_size THEN i + batch_size ELSE i + remaining]>>
                     \o put[i + batch_size]
            ELSE <<>>
    IN  put[0]

InitQueue ==
    /\ IdleDelete /\ IdleBuild /\ IdleRetry /\ IdleHierarchy /\ IdleOther
    /\ dst_objects = <<>> /\ src_id_dst_map = <<>> /\ src_filter = <<>> /\ batch = EmptyBatch
    /\ src_store = <<>> /\ dst_store = <<>> /\ jobs = <<>> /\ store_calls = <<>>
    /\ raised = "" /\ worker_error = "" /\ runs = 0
    /\ pc = "start"
    /\ \E n \in 0..MaxQueue : src_objects = [i \in 1..n |-> SrcEvent(i, NoneVal, SeqMax(Times))]
    /\ \E batch_size \in 1..(MaxQueue + 1) : opts = [DefaultOpts EXCEPT !.batch_size = batch_size]

\* replication.py 334-344
ThreadFill ==
    /\ pc = "start"
    /\ jobs' = EnqueuedChunks(Len(src_objects), opts.batch_size)
    /\ pc' = "done"
    /\ UNCHANGED <<opts, src_store, dst_store, store_calls, raised, worker_error, runs>>
    /\ UNCHANGED <<batchVars, deleteVars, buildVars, retryVars, hierarchyVars, otherVars>>

NextQueue == ThreadFill

SpecQueue == InitQueue /\ [][NextQueue]_vars

-----------------------------------------------------------------------------
(* Properties of the work queue (SpecQueue) *)

\* C24: for a source list of length N and batch_size >= 1 the chunks put on
\* the queue are index ranges [first, last) in increasing order, each next
\* to the one before, of size 1 .. batch_size; their union is [0, N) and
\* there are ceil(N / batch_size) of them.
C24_QueuePartition ==
    pc = "done" =>
        LET N == Len(src_objects)
        IN  /\ Len(jobs) = Ceil(N, opts.batch_size)
            /\ \A c \in 1..Len(jobs) :
                    /\ jobs[c].first = (IF c = 1 THEN 0 ELSE jobs[c - 1].last)
                    /\ jobs[c].last - jobs[c].first >= 1
                    /\ jobs[c].last - jobs[c].first <= opts.batch_size
            /\ N > 0 => jobs[Len(jobs)].last = N
            /\ \A i \in 0..(N - 1) :
                    Cardinality({c \in 1..Len(jobs) : jobs[c].first <= i /\ i < jobs[c].last}) = 1

\* The queue of the harness model is the queue the loop fills.
ChunksAreEnqueuedChunks ==
    pc = "done" => jobs = Chunks(Len(src_objects), opts.batch_size)

\* 7 objects in batches of 3: [0,3), [3,6), [6,7)
C24_Witness ==
    /\ pc = "done"
    /\ Len(src_objects) = 7 /\ opts.batch_size = 3
    /\ jobs = <<[first |-> 0, last |-> 3], [first |-> 3, last |-> 6], [first |-> 6, last |-> 7]>>

====
